---------------------------- MODULE Spec2Model ----------------------------
(***************************************************************************)
(* Gwaihir: the machine allowlist and Wake-on-LAN dispatch subsystem.      *)
(*                                                                         *)
(* Strings whose characters the code inspects (MAC addresses, broadcast    *)
(* addresses) are sequences of one-character strings; identifiers and      *)
(* names, of which only emptiness and equality matter, are plain strings.  *)
(***************************************************************************)
EXTENDS Integers, Sequences, FiniteSets, TLC

(***************************************************************************)
(* Bounds of the model.                                                    *)
(***************************************************************************)
\* longest list of machine records in the configuration
MaxMachines == 2
\* number of concurrent callers of SendWakePacket
NumCallers == 2

Callers == 1..NumCallers

(***************************************************************************)
(* Character helpers.                                                      *)
(***************************************************************************)
LowerChars == <<"a","b","c","d","e","f","g","h","i","j","k","l","m",
                "n","o","p","q","r","s","t","u","v","w","x","y","z">>
UpperChars == <<"A","B","C","D","E","F","G","H","I","J","K","L","M",
                "N","O","P","Q","R","S","T","U","V","W","X","Y","Z">>
HexChars == <<"0","1","2","3","4","5","6","7","8","9","A","B","C","D","E","F">>
DecChars == <<"0","1","2","3","4","5","6","7","8","9">>

Range(s) == { s[i] : i \in DOMAIN s }

IndexOf(seq, c) == CHOOSE i \in DOMAIN seq : seq[i] = c

\* upper-case letter of each lower-case letter
UpperOf == [c \in Range(LowerChars) |-> UpperChars[IndexOf(LowerChars, c)]]

\* unicode.ToUpper on one character
ToUpperChar(c) == IF c \in DOMAIN UpperOf THEN UpperOf[c] ELSE c

\* strings.ToUpper
ToUpper(s) == [i \in DOMAIN s |-> ToUpperChar(s[i])]

\* strings.ReplaceAll(s, old, new) for one-character old and new
ReplaceAll(s, old, new) == [i \in DOMAIN s |-> IF s[i] = old THEN new ELSE s[i]]

\* value of each hexadecimal digit, either case
HexDigits ==
  [c \in Range(HexChars) \cup {"a", "b", "c", "d", "e", "f"} |->
     IndexOf(HexChars, ToUpperChar(c)) - 1]

\* the character class [0-9A-Fa-f]
IsHexChar(c) == c \in DOMAIN HexDigits

\* value of one hexadecimal digit
HexVal(c) == HexDigits[c]

\* value of each decimal digit
DecDigits == [c \in Range(DecChars) |-> IndexOf(DecChars, c) - 1]

IsDecChar(c) == c \in DOMAIN DecDigits

DecVal(c) == DecDigits[c]

(***************************************************************************)
(* domain.ValidateMAC: the regular expression                              *)
(*   ^([0-9A-Fa-f]{2}[:-]){5}([0-9A-Fa-f]{2})$                             *)
(***************************************************************************)
ValidateMAC(mac) ==
  /\ Len(mac) = 17
  /\ \A k \in 0..4 : /\ IsHexChar(mac[3*k + 1])
                     /\ IsHexChar(mac[3*k + 2])
                     /\ mac[3*k + 3] \in {":", "-"}
  /\ IsHexChar(mac[16])
  /\ IsHexChar(mac[17])

(***************************************************************************)
(* net.ParseIP (net/netip.ParseAddr underneath).  An address is a sequence *)
(* of 16 bytes (IPv4 addresses in their IPv4-mapped form, as net.ParseIP   *)
(* returns them); <<>> stands for nil.                                     *)
(***************************************************************************)
Contains(s, c) == \E i \in DOMAIN s : s[i] = c

\* index of the first occurrence of c in s, 0 when absent
IndexByte(s, c) ==
  IF Contains(s, c) THEN CHOOSE i \in DOMAIN s : s[i] = c /\ \A j \in 1..(i - 1) : s[j] # c
                    ELSE 0

\* index of the last occurrence of c in s, 0 when absent
LastIndexByte(s, c) ==
  IF Contains(s, c) THEN CHOOSE i \in DOMAIN s : s[i] = c /\ \A j \in (i + 1)..Len(s) : s[j] # c
                    ELSE 0

\* netip.parseIPv4Fields on s[i..]: the four fields, or <<>> on a syntax error
RECURSIVE ParseIPv4Fields(_, _, _, _, _)
ParseIPv4Fields(s, i, val, fields, digLen) ==
  IF i > Len(s)
    THEN IF Len(fields) < 3 THEN <<>> ELSE Append(fields, val)
    ELSE IF IsDecChar(s[i])
      THEN IF (digLen = 1 /\ val = 0) \/ val * 10 + DecVal(s[i]) > 255
             THEN <<>>
             ELSE ParseIPv4Fields(s, i + 1, val * 10 + DecVal(s[i]), fields, digLen + 1)
      ELSE IF s[i] = "."
        THEN IF i = 1 \/ i = Len(s) \/ s[i - 1] = "." \/ Len(fields) = 3
               THEN <<>>
               ELSE ParseIPv4Fields(s, i + 1, 0, Append(fields, val), 0)
        ELSE <<>>

ParseIPv4(s) == ParseIPv4Fields(s, 1, 0, <<>>, 0)

\* net.IPv4(a, b, c, d): the IPv4-mapped 16-byte form
IPv4Mapped(f) == <<0, 0, 0, 0, 0, 0, 0, 0, 0, 0, 255, 255>> \o f

\* number of consecutive hexadecimal digits of s starting at p
RECURSIVE HexRun(_, _)
HexRun(s, p) == IF p <= Len(s) /\ IsHexChar(s[p]) THEN 1 + HexRun(s, p + 1) ELSE 0

\* value of the hexadecimal digits s[p .. p+n-1]
RECURSIVE HexAcc(_, _, _)
HexAcc(s, p, n) == IF n = 0 THEN 0 ELSE HexAcc(s, p, n - 1) * 16 + HexVal(s[p + n - 1])

\* the ellipsis expansion at the end of netip.parseIPv6; ip holds i bytes
ExpandEllipsis(ip, i, ellipsis) ==
  [j \in 1..16 |-> IF j <= ellipsis THEN ip[j]
                   ELSE IF j <= ellipsis + (16 - i) THEN 0
                   ELSE ip[j - (16 - i)]]

\* the end of netip.parseIPv6, after the loop: p is the first unread position
ParseIPv6Finish(s, p, ip, ellipsis) ==
  IF p <= Len(s) THEN <<>>
  ELSE IF Len(ip) < 16
    THEN IF ellipsis < 0 THEN <<>> ELSE ExpandEllipsis(ip, Len(ip), ellipsis)
    ELSE IF ellipsis >= 0 THEN <<>> ELSE ip

\* the loop of netip.parseIPv6: ip holds the bytes parsed so far
RECURSIVE ParseIPv6Loop(_, _, _, _)
ParseIPv6Loop(s, p, ip, ellipsis) ==
  IF Len(ip) >= 16 THEN ParseIPv6Finish(s, p, ip, ellipsis)
  ELSE
    LET off == HexRun(s, p)
        acc == HexAcc(s, p, off)
        i   == Len(ip)
    IN IF off = 0 \/ off > 4 THEN <<>>
       ELSE IF p + off <= Len(s) /\ s[p + off] = "."
         THEN IF (ellipsis < 0 /\ i # 12) \/ i + 4 > 16 THEN <<>>
              ELSE LET f == ParseIPv4Fields(s, p, 0, <<>>, 0)
                   IN IF f = <<>> THEN <<>>
                      ELSE ParseIPv6Finish(s, Len(s) + 1, ip \o f, ellipsis)
         ELSE LET ip2 == ip \o <<acc \div 256, acc % 256>>
                  q   == p + off
              IN IF q > Len(s) THEN ParseIPv6Finish(s, q, ip2, ellipsis)
                 ELSE IF s[q] # ":" \/ q = Len(s) THEN <<>>
                 ELSE IF s[q + 1] = ":"
                   THEN IF ellipsis >= 0 THEN <<>>
                        ELSE IF q + 2 > Len(s)
                          THEN ParseIPv6Finish(s, q + 2, ip2, Len(ip2))
                          ELSE ParseIPv6Loop(s, q + 2, ip2, Len(ip2))
                   ELSE ParseIPv6Loop(s, q + 1, ip2, ellipsis)

\* netip.parseIPv6 for a string without a zone
ParseIPv6(s) ==
  IF Len(s) >= 2 /\ s[1] = ":" /\ s[2] = ":"
    THEN IF Len(s) = 2 THEN [j \in 1..16 |-> 0]
                       ELSE ParseIPv6Loop(s, 3, <<>>, 0)
    ELSE ParseIPv6Loop(s, 1, <<>>, -1)

\* the first of '.', ':' and '%' in s decides the syntax (netip.ParseAddr)
FirstSyntaxChar(s) ==
  IF \E i \in DOMAIN s : s[i] \in {".", ":", "%"}
    THEN s[CHOOSE i \in DOMAIN s : /\ s[i] \in {".", ":", "%"}
                                   /\ \A j \in 1..(i - 1) : s[j] \notin {".", ":", "%"}]
    ELSE ""

\* net.ParseIP: a zone makes the address invalid
ParseIP(s) ==
  IF Contains(s, "%") THEN <<>>
  ELSE IF FirstSyntaxChar(s) = "."
    THEN LET f == ParseIPv4(s) IN IF f = <<>> THEN <<>> ELSE IPv4Mapped(f)
  ELSE IF FirstSyntaxChar(s) = ":" THEN ParseIPv6(s)
  ELSE <<>>

\* IP.To4: the 4-byte form of an IPv4 or IPv4-mapped address, <<>> otherwise
To4(ip) ==
  IF Len(ip) = 16 /\ (\A j \in 1..10 : ip[j] = 0) /\ ip[11] = 255 /\ ip[12] = 255
    THEN SubSeq(ip, 13, 16)
    ELSE <<>>

(***************************************************************************)
(* domain.ValidateBroadcast                                                *)
(***************************************************************************)
ValidateBroadcast(broadcast) ==
  LET ip == ParseIP(broadcast)
  IN ip # <<>> /\ To4(ip) # <<>>

(***************************************************************************)
(* Machine.Validate and Machine.NormalizeMAC                               *)
(***************************************************************************)
\* the error Validate returns, "" for nil
Validate(m) ==
  IF m.id = "" THEN "machine ID cannot be empty"
  ELSE IF m.name = "" THEN "machine name cannot be empty"
  ELSE IF ~ValidateMAC(m.mac) THEN "invalid MAC address"
  ELSE IF ~ValidateBroadcast(m.broadcast) THEN "invalid broadcast address"
  ELSE ""

NormalizeMAC(m) == ReplaceAll(ToUpper(m.mac), "-", ":")

(***************************************************************************)
(* WoLPacketSender: the pure parts of SendMagicPacket.                     *)
(***************************************************************************)
\* a normalisation that leaves the separators as they are
normalizeMACAddressUpperOnly(mac) == ToUpper(mac)

\* normalizeMACAddress
normalizeMACAddress(mac) == ToUpper(ReplaceAll(mac, "-", ":"))

\* net.xtoi2(s[x:], e): two hexadecimal digits at x, followed by e unless
\* they end the string; the byte, or -1
Xtoi2(s, x, e) ==
  IF Len(s) - x + 1 > 2 /\ s[x + 2] # e THEN -1
  ELSE IF x + 1 <= Len(s) /\ IsHexChar(s[x]) /\ IsHexChar(s[x + 1])
    THEN HexVal(s[x]) * 16 + HexVal(s[x + 1])
    ELSE -1

\* net.ParseMAC: the hardware address (6, 8 or 20 bytes), or <<>> on error
ParseMAC(s) ==
  IF Len(s) < 14 THEN <<>>
  ELSE IF s[3] = ":" \/ s[3] = "-"
    THEN IF (Len(s) + 1) % 3 # 0 THEN <<>>
         ELSE LET n  == (Len(s) + 1) \div 3
                  hw == [i \in 1..n |-> Xtoi2(s, 3 * (i - 1) + 1, s[3])]
              IN IF n \notin {6, 8, 20} \/ (\E i \in 1..n : hw[i] = -1) THEN <<>> ELSE hw
  ELSE IF s[5] = "."
    THEN IF (Len(s) + 1) % 5 # 0 THEN <<>>
         ELSE LET n  == (2 * (Len(s) + 1)) \div 5
                  hw == [i \in 1..n |->
                           LET x == 5 * ((i - 1) \div 2) + 1
                           IN IF i % 2 = 1
                                THEN IF IsHexChar(s[x]) /\ IsHexChar(s[x + 1])
                                       THEN HexVal(s[x]) * 16 + HexVal(s[x + 1])
                                       ELSE -1
                                ELSE Xtoi2(s, x + 2, s[5])]
              IN IF n \notin {6, 8, 20} \/ (\E i \in 1..n : hw[i] = -1) THEN <<>> ELSE hw
  ELSE <<>>

\* length of the magic packet: 6 + 16*6
PacketLen == 102

Min(a, b) == IF a < b THEN a ELSE b

\* copy(dst[off:], src) with a 0-based offset: min(len(src), len(dst)-off)
\* bytes of src replace those of dst from off on
Copy(dst, off, src) ==
  LET n == Min(Len(src), Len(dst) - off)
  IN SubSeq(dst, 1, off) \o SubSeq(src, 1, n) \o SubSeq(dst, off + n + 1, Len(dst))

\* the second loop of buildMagicPacket, from repetition i on
RECURSIVE RepeatMAC(_, _, _)
RepeatMAC(packet, macBytes, i) ==
  IF i >= 16 THEN packet
             ELSE RepeatMAC(Copy(packet, 6 + i * 6, macBytes), macBytes, i + 1)

\* buildMagicPacket
buildMagicPacket(macBytes) ==
  RepeatMAC([j \in 1..PacketLen |-> IF j <= 6 THEN 255 ELSE 0], macBytes, 0)

\* net.JoinHostPort(host, "9")
JoinHostPort(host) ==
  IF Contains(host, ":") THEN <<"[">> \o host \o <<"]", ":", "9">>
                         ELSE host \o <<":", "9">>

\* net.SplitHostPort: [ok, host, port]
SplitHostPort(hostport) ==
  LET i    == LastIndexByte(hostport, ":")
      end  == IndexByte(hostport, "]")
      fail == [ok |-> FALSE, host |-> <<>>, port |-> <<>>]
      rest(from) == SubSeq(hostport, from, Len(hostport))
  IN IF i = 0 THEN fail
     ELSE IF hostport[1] = "["
       THEN IF end = 0 \/ end + 1 # i THEN fail
            ELSE IF Contains(rest(2), "[") \/ Contains(rest(end + 1), "]") THEN fail
            ELSE [ok |-> TRUE, host |-> SubSeq(hostport, 2, end - 1), port |-> rest(i + 1)]
       ELSE IF Contains(SubSeq(hostport, 1, i - 1), ":") THEN fail
            ELSE IF Contains(hostport, "[") \/ Contains(hostport, "]") THEN fail
            ELSE [ok |-> TRUE, host |-> SubSeq(hostport, 1, i - 1), port |-> rest(i + 1)]

\* netip.ParseAddr succeeds on host: an IP literal, possibly with an IPv6 zone
IsIPLiteral(host) ==
  LET z == IndexByte(host, "%")
  IN IF z = 0 THEN ParseIP(host) # <<>>
     ELSE /\ z < Len(host)
          /\ FirstSyntaxChar(host) = ":"
          /\ ParseIPv6(SubSeq(host, 1, z - 1)) # <<>>

\* net.ResolveUDPAddr("udp", addr): "ok", or "error"; dns is the answer of the
\* resolver when the host is a name rather than an address literal
ResolveUDPAddr(addr, dns) ==
  LET hp == SplitHostPort(addr)
  IN IF ~hp.ok THEN "error"
     ELSE IF hp.host = <<>> THEN "ok"
     ELSE IF IsIPLiteral(hp.host) THEN "ok"
     ELSE IF dns THEN "ok" ELSE "error"

(***************************************************************************)
(* Sample strings.                                                         *)
(***************************************************************************)
\* Join the octets with the separators: octs[1] seps[1] octs[2] ...
RECURSIVE JoinOctets(_, _)
JoinOctets(octs, seps) ==
  IF Len(octs) = 0 THEN <<>>
  ELSE IF Len(octs) = 1 THEN octs[1]
  ELSE octs[1] \o <<seps[1]>> \o JoinOctets(Tail(octs), Tail(seps))

UpperOctets == << <<"A","A">>, <<"B","B">>, <<"C","C">>, <<"D","D">>, <<"E","E">>, <<"F","F">> >>
LowerOctets == << <<"1","a">>, <<"2","b">>, <<"3","c">>, <<"4","d">>, <<"5","e">>, <<"0","f">> >>

\* "AA:BB:CC:DD:EE:FF"
MacColon == JoinOctets(UpperOctets, <<":", ":", ":", ":", ":">>)
\* "1a-2b-3c-4d-5e-0f"
MacDash == JoinOctets(LowerOctets, <<"-", "-", "-", "-", "-">>)
\* "invalid"
MacInvalid == <<"i","n","v","a","l","i","d">>

\* "192.168.1.255"
BroadcastA == <<"1","9","2",".","1","6","8",".","1",".","2","5","5">>
\* "10.0.0.255"
BroadcastB == <<"1","0",".","0",".","0",".","2","5","5">>
\* "fe80::1"
BroadcastV6 == <<"f","e","8","0",":",":","1">>

(***************************************************************************)
(* The machine records a configuration file may list.                      *)
(***************************************************************************)
Rec(id, name, mac, broadcast) ==
  [id |-> id, name |-> name, mac |-> mac, broadcast |-> broadcast]

Records ==
  { Rec("a", "Dev Box", MacColon, BroadcastA),
    Rec("b", "Nas", MacDash, BroadcastB),
    Rec("a", "Other", MacDash, BroadcastB),
    Rec("a", "Dev Box", MacInvalid, BroadcastA),
    Rec("", "Dev Box", MacColon, BroadcastA),
    Rec("b", "", MacColon, BroadcastA),
    Rec("b", "Nas", MacColon, BroadcastV6) }

\* every list of at most MaxMachines records
Configs == UNION { [1..n -> Records] : n \in 0..MaxMachines }

\* the identifiers a caller may ask for
RequestIds == {"a", "b", "nonexistent"}

\* the zero Machine, standing for a nil *Machine
NilMachine == Rec("", "", <<>>, <<>>)

\* a nil *YAMLMachineRepository
NilRepo == [isNil |-> TRUE]

\* make(map[string]*domain.Machine)
EmptyMap == [x \in {} |-> NilMachine]

\* the loop-variable bug: every entry points at the record inserted last
MapPutAliased(m, id, machine) == [x \in DOMAIN m \cup {id} |-> machine]

\* machines[id] = machine
MapPut(m, id, machine) == [x \in DOMAIN m \cup {id} |-> IF x = id THEN machine ELSE m[x]]

\* a loop that keeps the last record only
ConstructorLoopBodyLastOnly(input, i, machines) ==
  LET m == input[i]
  IN IF Validate(m) # ""
       THEN [i |-> i, machines |-> machines, err |-> "invalid machine"]
       ELSE IF m.id \in DOMAIN machines
         THEN [i |-> i, machines |-> machines, err |-> "duplicate machine ID"]
         ELSE [i |-> i + 1, machines |-> MapPut(EmptyMap, m.id, m), err |-> ""]

\* the loop without the duplicate check: a later record replaces the earlier
ConstructorLoopBodyNoDuplicateCheck(input, i, machines) ==
  LET m == input[i]
  IN IF Validate(m) # ""
       THEN [i |-> i, machines |-> machines, err |-> "invalid machine"]
       ELSE [i |-> i + 1, machines |-> MapPut(machines, m.id, m), err |-> ""]

\* one iteration of "for i := range config.Machines"
ConstructorLoopBody(input, i, machines) ==
  LET m == input[i]
  IN IF Validate(m) # ""
       THEN [i |-> i, machines |-> machines, err |-> "invalid machine"]
       ELSE IF m.id \in DOMAIN machines
         THEN [i |-> i, machines |-> machines, err |-> "duplicate machine ID"]
         ELSE [i |-> i + 1, machines |-> MapPut(machines, m.id, m), err |-> ""]

\* the loop of the constructor from the state c on, up to its return
RECURSIVE ConstructFrom(_, _)
ConstructFrom(input, c) ==
  IF c.err # "" \/ c.i > Len(input)
    THEN c
    ELSE ConstructFrom(input, ConstructorLoopBody(input, c.i, c.machines))

\* the whole loop of the constructor on the records of input
Construct(input) == ConstructFrom(input, [i |-> 1, machines |-> EmptyMap, err |-> ""])

\* the constructor that returns what it has built along with the error
ConstructorReturnPartial(c) == [isNil |-> FALSE, machines |-> c.machines]

\* what the constructor returns: nil with an error, the repository without
ConstructorReturn(c) ==
  IF c.err # "" THEN NilRepo ELSE [isNil |-> FALSE, machines |-> c.machines]

\* an index expression that inserts the zero value under a missing key
MapAfterIndexInserts(m, id) ==
  [x \in DOMAIN m \cup {id} |-> IF x \in DOMAIN m THEN m[x] ELSE NilMachine]

\* the map after "machine, exists := r.machines[id]": reading leaves it as it is
MapAfterIndex(m, id) == m

\* a read that never releases its lock
RUnlockMissing(readers) == readers

\* r.mu.RUnlock(): one reader fewer holds the lock
RUnlock(readers) == readers - 1

\* r.mu.RLock(): with no writer the lock is granted at once
RLock(readers) == readers + 1

\* a lookup that falls back to some machine when the id is unknown
GetByIDResultFallback(r, id) ==
  IF id \in DOMAIN r.machines THEN r.machines[id]
  ELSE IF DOMAIN r.machines # {} THEN r.machines[CHOOSE x \in DOMAIN r.machines : TRUE]
  ELSE NilMachine

\* a lookup that never finds the id
GetByIDResultNeverFound(r, id) == NilMachine

\* the lookup of GetByID: the machine, or the zero Machine for (nil, ErrMachineNotFound)
GetByIDResult(r, id) ==
  IF id \in DOMAIN r.machines THEN r.machines[id] ELSE NilMachine

\* the call that passes the normalized MAC instead of the stored one
SenderArgsNormalized(m) == [mac |-> NormalizeMAC(m), broadcast |-> m.broadcast]

\* the arguments SendWakePacket passes to packetSender.SendMagicPacket
SenderArgs(m) == [mac |-> m.mac, broadcast |-> m.broadcast]

\* a retry: a failed send goes back to the call of the transmitter
AfterSendPcRetry(err) == IF err # "" THEN "lookedUp" ELSE "done"

\* where SendWakePacket goes once SendMagicPacket has returned err: it returns
AfterSendPc(err) == "done"

\* the datagram conn.WriteTo(packet, addr) hands to the socket
Datagram(pkt, broadcast) ==
  LET hp == SplitHostPort(JoinHostPort(broadcast))
  IN [payload |-> pkt, host |-> hp.host, port |-> hp.port]

\* a resolve whose error is dropped: the write is attempted all the same
AfterResolvePcIgnored(result) == "write"

\* "if err != nil { return ... }" after net.ResolveUDPAddr
AfterResolvePc(result) == IF result = "ok" THEN "write" ELSE "sendExit"

\* a write that is attempted again when it fails
AfterWritePcRetry(err) == IF err # "" THEN "write" ELSE "sendExit"

\* SendMagicPacket returns after conn.WriteTo, whatever its error
AfterWritePc(err) == "sendExit"

\* a Close that runs on the success path only
ConnAtReturnOnSuccessOnly(state, isDeferred, err) ==
  IF isDeferred /\ err = "" THEN "closed" ELSE state

\* the socket once SendMagicPacket has returned: the deferred function, when
\* registered, has closed it
ConnAtReturn(state, isDeferred, err) == IF isDeferred THEN "closed" ELSE state

\* a failure path that increments the counter of the packets sent
CountFailedAsSent(m) == [m EXCEPT !.wol_sent = @ + 1]

\* uc.metrics.WoLPacketsFailed.Inc()
CountFailed(m) == [m EXCEPT !.wol_failed = @ + 1]

\* run that drops the error of initializeRepository
AfterInitializeRepositoryIgnored(err) == "startServer"

\* run: "if err != nil { return ... }" after initializeRepository
AfterInitializeRepository(err) == IF err # "" THEN "exited" ELSE "startServer"

(***************************************************************************)
(* The HTTP delivery layer: router, API key middleware, handlers.          *)
(***************************************************************************)
\* the routes of the protected group
ProtectedRoutes == {"POST /wol", "GET /machines", "GET /machines/:id"}

\* the routes of the health handler
HealthRoutes == {"GET /health", "GET /live", "GET /ready"}

\* every route the router may register
AllRoutes == ProtectedRoutes \cup HealthRoutes \cup {"GET /metrics", "GET /version"}

\* a nil *config.Config
NilConfig == [isNil |-> TRUE, health |-> "nil", metrics |-> "nil"]

\* the observability settings a configuration may carry: each Enabled is a
\* *bool, nil when the file leaves it out
ObservabilityConfigs ==
  {NilConfig} \cup [isNil : {FALSE}, health : {"nil", "true", "false"},
                    metrics : {"nil", "true", "false"}]

\* a router that registers the health endpoints whatever the toggle says
HealthEnabledAlways(cfg) == TRUE

\* healthEnabled := true; overridden when cfg and the *bool are not nil
HealthEnabled(cfg) ==
  IF ~cfg.isNil /\ cfg.health # "nil" THEN cfg.health = "true" ELSE TRUE

\* metricsEnabled := true; overridden when cfg and the *bool are not nil
MetricsEnabled(cfg) ==
  IF ~cfg.isNil /\ cfg.metrics # "nil" THEN cfg.metrics = "true" ELSE TRUE

\* the routes NewRouterWithAuthAndConfig registers, and the key its
\* protected group checks ("" when the group has no middleware)
NewRouterWithAuthAndConfig(apiKey, cfg) ==
  [routes |-> (IF HealthEnabled(cfg) THEN HealthRoutes ELSE {})
                \cup (IF MetricsEnabled(cfg) THEN {"GET /metrics"} ELSE {})
                \cup {"GET /version"}
                \cup ProtectedRoutes,
   apiKey |-> apiKey]

\* a middleware that rejects a missing header only
APIKeyAuthMiddlewareMissingOnly(expectedAPIKey, apiKey) ==
  IF apiKey = "" THEN 401 ELSE 0

\* APIKeyAuthMiddleware: 401 and c.Abort() on a missing or different header,
\* c.Next() (0) otherwise
APIKeyAuthMiddleware(expectedAPIKey, apiKey) ==
  IF apiKey = "" THEN 401
  ELSE IF apiKey # expectedAPIKey THEN 401
  ELSE 0

\* the handlers in front of the endpoint handler of a route: the protected
\* group uses the middleware when the router was built with a key
RouteMiddleware(r, req) ==
  IF req.route \in ProtectedRoutes /\ r.apiKey # ""
    THEN APIKeyAuthMiddleware(r.apiKey, req.key)
    ELSE 0

\* domain.ErrMachineNotFound
ErrMachineNotFound == "machine not found"

\* the error SendWakePacket returns, as the chain fmt.Errorf("...: %w", err)
\* builds, outermost message first; <<>> is nil
SendWakePacketError(outcome, sendError) ==
  CASE outcome = "NotFound" -> <<"failed to get machine", ErrMachineNotFound>>
    [] outcome = "Failed" -> <<"failed to send WoL packet", sendError>>
    [] OTHER -> <<>>

\* a comparison with == in place of errors.Is: it sees the outermost error only
ErrorsIsTopOnly(err, target) == err # <<>> /\ err[1] = target

\* errors.Is(err, target): some error of the chain is the target
ErrorsIs(err, target) == \E i \in DOMAIN err : err[i] = target

\* Handler.Wake: the status it answers for the error SendWakePacket returned
WakeStatus(err) ==
  IF err = <<>> THEN 202
  ELSE IF ErrorsIs(err, ErrMachineNotFound) THEN 404
  ELSE 500

\* Handler.GetMachine: the status it answers for what GetMachine returned
GetMachineStatus(m) ==
  IF m = NilMachine
    THEN IF ErrorsIs(<<ErrMachineNotFound>>, ErrMachineNotFound) THEN 404 ELSE 500
    ELSE 200

\* HealthHandler.HealthCheckFull: the response for what ListMachines returned
HealthCheckFullResponse(machines, err) ==
  LET machineCheckStatus ==
        IF err # "" THEN "error"
        ELSE IF Len(machines) = 0 THEN "warning"
        ELSE "ok"
  IN IF machineCheckStatus = "error"
       THEN [code |-> 503, status |-> "unhealthy", machines |-> machineCheckStatus]
       ELSE [code |-> 200, status |-> "healthy", machines |-> machineCheckStatus]

\* HealthHandler.HealthCheckReady: the response for what ListMachines returned
HealthCheckReadyResponse(machines, err) ==
  IF err # "" THEN [code |-> 503, status |-> "not ready", machines |-> "error"]
  ELSE IF Len(machines) = 0
    THEN [code |-> 503, status |-> "not ready", machines |-> "no machines configured"]
  ELSE [code |-> 200, status |-> "ready", machines |-> "ok"]

(***************************************************************************)
(* Package config: LoadConfig, setDefaults, applyEnvOverrides and          *)
(* Config.Validate.                                                        *)
(***************************************************************************)
\* the value of a string of decimal digits
RECURSIVE DecValue(_)
DecValue(s) == IF Len(s) = 0 THEN 0 ELSE 10 * DecValue(SubSeq(s, 1, Len(s) - 1)) + DecVal(s[Len(s)])

\* strconv.Atoi: an optional sign and one or more decimal digits (the
\* samples stay far below the range of int)
Atoi(s) ==
  LET signed == Len(s) > 0 /\ s[1] \in {"+", "-"}
      digits == IF signed THEN Tail(s) ELSE s
  IN IF Len(digits) = 0 \/ \E i \in DOMAIN digits : ~IsDecChar(digits[i])
       THEN [ok |-> FALSE, value |-> 0]
       ELSE [ok |-> TRUE,
             value |-> IF signed /\ s[1] = "-" THEN 0 - DecValue(digits) ELSE DecValue(digits)]

\* var cfg Config: the zero value
ZeroConfig ==
  [port |-> 0, format |-> "", level |-> "", apiKey |-> "", machines |-> <<>>,
   health |-> "nil", metrics |-> "nil"]

\* setDefaults
setDefaults(cfg) ==
  [cfg EXCEPT !.port = IF @ = 0 THEN 8080 ELSE @,
              !.format = IF @ = "" THEN "text" ELSE @,
              !.level = IF @ = "" THEN "info" ELSE @,
              !.health = IF @ = "nil" THEN "true" ELSE @,
              !.metrics = IF @ = "nil" THEN "true" ELSE @]

\* applyEnvOverrides: a variable that is set replaces the value of the
\* file; a GWAIHIR_PORT that Atoi rejects is skipped
applyEnvOverrides(cfg, env) ==
  [cfg EXCEPT !.port = IF env.GWAIHIR_PORT # <<>> /\ Atoi(env.GWAIHIR_PORT).ok
                         THEN Atoi(env.GWAIHIR_PORT).value ELSE @,
              !.format = IF env.GWAIHIR_LOG_FORMAT # ""
                           THEN env.GWAIHIR_LOG_FORMAT ELSE @,
              !.level = IF env.GWAIHIR_LOG_LEVEL # ""
                          THEN env.GWAIHIR_LOG_LEVEL ELSE @,
              !.apiKey = IF env.GWAIHIR_API_KEY # ""
                           THEN env.GWAIHIR_API_KEY ELSE @]

\* isValidMAC: the regular expression ^([0-9A-Fa-f]{2}[:]){5}([0-9A-Fa-f]{2})$
isValidMAC(mac) ==
  /\ Len(mac) = 17
  /\ \A k \in 0..4 : /\ IsHexChar(mac[3*k + 1])
                     /\ IsHexChar(mac[3*k + 2])
                     /\ mac[3*k + 3] = ":"
  /\ IsHexChar(mac[16])
  /\ IsHexChar(mac[17])

\* isValidIP: net.ParseIP(ip) != nil
isValidIP(ip) == ParseIP(ip) # <<>>

\* validateMachine
validateMachine(m) ==
  IF ~isValidMAC(m.mac) THEN "invalid MAC address format"
  ELSE IF ~isValidIP(m.broadcast) THEN "invalid broadcast IP address"
  ELSE ""

\* validateLogFormat
validateLogFormat(format) ==
  IF format \in {"json", "text"} THEN "" ELSE "invalid server.log.format"

\* validateLogLevel
validateLogLevel(level) ==
  IF level \in {"debug", "info", "warn", "error"} THEN "" ELSE "invalid server.log.level"

\* Config.Validate: the first check that fails, "" for nil
ConfigValidate(cfg) ==
  IF cfg.port < 1 \/ cfg.port > 65535 THEN "invalid server port"
  ELSE IF validateLogFormat(cfg.format) # "" THEN validateLogFormat(cfg.format)
  ELSE IF validateLogLevel(cfg.level) # "" THEN validateLogLevel(cfg.level)
  ELSE IF cfg.apiKey = "" THEN "authentication.api_key is required and cannot be empty"
  ELSE IF Len(cfg.machines) = 0 THEN "at least one machine must be configured"
  ELSE IF \E i \in DOMAIN cfg.machines : validateMachine(cfg.machines[i]) # ""
    THEN validateMachine(
           cfg.machines[CHOOSE i \in DOMAIN cfg.machines :
                          /\ validateMachine(cfg.machines[i]) # ""
                          /\ \A j \in 1..(i - 1) : validateMachine(cfg.machines[j]) = ""])
  ELSE ""

VARIABLES
  cfgMachines,   \* config.Machines: the records of the configuration file
  mainPc,        \* position of run()
  runErr,        \* the error run() returned, "" for none
  ctor,          \* NewYAMLMachineRepository: loop index, local map, error
  repo,          \* the repository run() holds
  listening,     \* the HTTP server accepts requests
  mu,            \* YAMLMachineRepository.mu: number of read locks held
  pc,            \* position of each caller
  reqId,         \* the machineID argument of each SendWakePacket call
  machine,       \* the machine GetByID returned to each call
  ret,           \* outcome each call reported: Pending, Sent, Failed, NotFound
  invocations,   \* the SendMagicPacket calls each SendWakePacket call made
  log,           \* the diagnostic events each call emitted, in order
  metrics,       \* the Prometheus counters
  sendMac,       \* SendMagicPacket: the mac argument
  sendBroadcast, \* SendMagicPacket: the broadcast argument
  packet,        \* SendMagicPacket: the magic packet built
  conn,          \* SendMagicPacket: the UDP socket: none, open, closed
  deferred,      \* SendMagicPacket: the deferred conn.Close is registered
  written,       \* the WriteTo calls made on each caller's socket
  sendErr,       \* the error SendMagicPacket returns, "" for nil
  cancelled,     \* the caller's request was cancelled, or its deadline expired
  readRet,       \* what the GetAll or Exists call of each caller returned
  vInput,        \* the strings handed to the validators
  vResult,       \* what each validator returned for them
  router,        \* the gin engine: the routes registered and the API key of the protected group
  observability, \* cfg.Observability as the router was given it
  http,          \* the HTTP request each caller sent, how far it got, and its response
  configFile,    \* LoadConfig: the file at path
  environ,       \* the GWAIHIR_* environment variables
  loadPc,        \* LoadConfig: its position
  loadCfg,       \* LoadConfig: its local cfg
  loadRet,       \* what LoadConfig returned
  validateRet,   \* what Config.Validate returned, "" for nil
  sigint,        \* startServer: a signal has been delivered to the channel sigint
  shutdown       \* startServer: server.Shutdown: none, running, returned, timed out

mainVars == <<cfgMachines, mainPc, runErr, ctor, repo, listening>>
useVars == <<mu, reqId, machine, ret, invocations, log, metrics>>
callVars == <<pc, useVars>>
sendVars == <<sendMac, sendBroadcast, packet, conn, deferred, written, sendErr>>
validateVars == <<vInput, vResult>>
httpVars == <<router, observability, http>>
loadVars == <<configFile, environ, loadPc, loadCfg, loadRet, validateRet>>
stopVars == <<sigint, shutdown>>
edgeVars == <<httpVars, loadVars, stopVars>>
otherVars == <<cancelled, readRet, validateVars, edgeVars>>
vars == <<mainVars, callVars, sendVars, otherVars>>

\* no read has returned
NoRead == [op |-> "", id |-> "", machines |-> <<>>, exists |-> FALSE]

\* no validator has been called
NotValidated == [mac |-> "unset", broadcast |-> "unset", machine |-> "unset"]

\* no request has been sent
NoRequest == [route |-> "", key |-> "", body |-> "", id |-> ""]

\* a connection on which no request has been sent yet
NoExchange == [req |-> NoRequest, stage |-> "idle", status |-> 0, answer |-> "", check |-> ""]

\* no router has been built
NoRouter == [routes |-> {}, apiKey |-> ""]

\* the HTTP layer before any router is built and any request is sent
InitHTTPIdle ==
  /\ router = NoRouter
  /\ observability = NilConfig
  /\ http = [c \in Callers |-> NoExchange]

\* LoadConfig has not returned
NotLoaded == [isNil |-> TRUE, cfg |-> ZeroConfig, err |-> "pending"]

\* no configuration is being loaded
InitLoadIdle ==
  /\ configFile = [readable |-> FALSE, yaml |-> FALSE, fields |-> ZeroConfig]
  /\ environ = [GWAIHIR_PORT |-> <<>>, GWAIHIR_LOG_FORMAT |-> "",
                GWAIHIR_LOG_LEVEL |-> "", GWAIHIR_API_KEY |-> ""]
  /\ loadPc = "idle"
  /\ loadCfg = ZeroConfig
  /\ loadRet = NotLoaded
  /\ validateRet = "unset"

\* no signal has been delivered and server.Shutdown has not been called
InitStopIdle ==
  /\ sigint = FALSE
  /\ shutdown = "none"

\* the state of the layers around the use case
InitEdge == InitHTTPIdle /\ InitLoadIdle /\ InitStopIdle

\* the state outside the validators, the reads and the cancellation
InitOther ==
  /\ cancelled = [c \in Callers |-> FALSE]
  /\ readRet = [c \in Callers |-> NoRead]
  /\ vInput = [mac |-> <<>>, broadcast |-> <<>>]
  /\ vResult = NotValidated
  /\ InitEdge

\* the state of the callers before any call
InitCallers ==
  /\ mu = 0
  /\ pc = [c \in Callers |-> "idle"]
  /\ reqId = [c \in Callers |-> ""]
  /\ machine = [c \in Callers |-> NilMachine]
  /\ ret = [c \in Callers |-> "Pending"]
  /\ invocations = [c \in Callers |-> <<>>]
  /\ log = [c \in Callers |-> <<>>]
  /\ metrics = [wol_sent |-> 0, wol_failed |-> 0, machine_not_found |-> 0]
  /\ sendMac = [c \in Callers |-> <<>>]
  /\ sendBroadcast = [c \in Callers |-> <<>>]
  /\ packet = [c \in Callers |-> <<>>]
  /\ conn = [c \in Callers |-> "none"]
  /\ deferred = [c \in Callers |-> FALSE]
  /\ written = [c \in Callers |-> <<>>]
  /\ sendErr = [c \in Callers |-> ""]

Init ==
  /\ cfgMachines \in Configs
  /\ mainPc = "loadConfiguration"
  /\ runErr = ""
  /\ ctor = [i |-> 0, machines |-> EmptyMap, err |-> ""]
  /\ repo = NilRepo
  /\ listening = FALSE
  /\ InitCallers
  /\ InitOther

(***************************************************************************)
(* run(): startup.                                                         *)
(***************************************************************************)
\* run: loadConfiguration, then initializeLogger
LoadConfiguration ==
  /\ mainPc = "loadConfiguration"
  /\ \E ok \in BOOLEAN :
       IF ok THEN /\ mainPc' = "initializeMetrics"
                  /\ UNCHANGED runErr
             ELSE /\ mainPc' = "exited"
                  /\ runErr' = "failed to load configuration"
  /\ UNCHANGED <<cfgMachines, ctor, repo, listening, callVars, sendVars, otherVars>>

\* run: initializeMetrics; prometheus.Register may refuse
InitializeMetrics ==
  /\ mainPc = "initializeMetrics"
  /\ \E ok \in BOOLEAN :
       IF ok THEN /\ mainPc' = "initializeRepository"
                  /\ UNCHANGED runErr
             ELSE /\ mainPc' = "exited"
                  /\ runErr' = "failed to initialize metrics"
  /\ UNCHANGED <<cfgMachines, ctor, repo, listening, callVars, sendVars, otherVars>>

\* the constructor reads and parses its input, then starts the loop
ConstructorStart ==
  /\ mainPc = "initializeRepository"
  /\ \E outcome \in {"ok", "failed to read config file", "failed to parse config file"} :
       IF outcome = "ok"
         THEN /\ ctor' = [i |-> 1, machines |-> EmptyMap, err |-> ""]
              /\ mainPc' = "constructing"
              /\ UNCHANGED repo
         ELSE /\ ctor' = [ctor EXCEPT !.err = outcome]
              /\ mainPc' = "constructed"
              /\ repo' = ConstructorReturn(ctor')
  /\ UNCHANGED <<cfgMachines, runErr, listening, callVars, sendVars, otherVars>>

\* the loop of the constructor and its return statements
ConstructorStep ==
  /\ mainPc = "constructing"
  /\ IF ctor.i > Len(cfgMachines)
       THEN /\ repo' = ConstructorReturn(ctor)
            /\ mainPc' = "constructed"
            /\ UNCHANGED ctor
       ELSE /\ ctor' = ConstructorLoopBody(cfgMachines, ctor.i, ctor.machines)
            /\ IF ctor'.err # ""
                 THEN /\ mainPc' = "constructed"
                      /\ repo' = ConstructorReturn(ctor')
                 ELSE /\ mainPc' = "constructing"
                      /\ UNCHANGED repo
  /\ UNCHANGED <<cfgMachines, runErr, listening, callVars, sendVars, otherVars>>

\* initializeRepository returns to run, which goes on to startServer
\* (logMachineConfiguration, initializeUseCase, initializeHandler and
\* initializeRouter cannot fail)
InitializeRepositoryReturn ==
  /\ mainPc = "constructed"
  /\ mainPc' = AfterInitializeRepository(ctor.err)
  /\ runErr' = IF mainPc' = "exited" THEN "failed to initialize repository" ELSE runErr
  /\ UNCHANGED <<cfgMachines, ctor, repo, listening, callVars, sendVars, otherVars>>

\* startServer: ListenAndServe either listens or fails (address in use)
StartServer ==
  /\ mainPc = "startServer"
  /\ \E ok \in BOOLEAN :
       IF ok THEN /\ listening' = TRUE
                  /\ mainPc' = "serving"
                  /\ UNCHANGED runErr
             ELSE /\ mainPc' = "exited"
                  /\ runErr' = "server error"
                  /\ UNCHANGED listening
  /\ UNCHANGED <<cfgMachines, ctor, repo, callVars, sendVars, otherVars>>

(***************************************************************************)
(* WoLUseCase.SendWakePacket, one call per caller.                         *)
(***************************************************************************)
\* a request reaches SendWakePacket, which calls GetByID; GetByID takes the
\* read lock
Call(c, id) ==
  /\ listening
  /\ pc[c] = "idle"
  /\ reqId' = [reqId EXCEPT ![c] = id]
  /\ mu' = RLock(mu)
  /\ pc' = [pc EXCEPT ![c] = "GetByID"]
  /\ UNCHANGED <<otherVars, mainVars, machine, ret, invocations, log, metrics, sendVars>>

\* GetByID looks the id up and releases the read lock (deferred RUnlock)
GetByID(c) ==
  /\ pc[c] = "GetByID"
  /\ machine' = [machine EXCEPT ![c] = GetByIDResult(repo, reqId[c])]
  /\ repo' = [repo EXCEPT !.machines = MapAfterIndex(@, reqId[c])]
  /\ mu' = RUnlock(mu)
  /\ pc' = [pc EXCEPT ![c] = "lookedUp"]
  /\ UNCHANGED <<otherVars, cfgMachines, mainPc, runErr, ctor, listening,
                 reqId, ret, invocations, log, metrics, sendVars>>

\* err != nil after GetByID: count and return "failed to get machine"
ReturnNotFound(c) ==
  /\ pc[c] = "lookedUp"
  /\ machine[c] = NilMachine
  /\ metrics' = [metrics EXCEPT !.machine_not_found = @ + 1]
  /\ ret' = [ret EXCEPT ![c] = "NotFound"]
  /\ pc' = [pc EXCEPT ![c] = "done"]
  /\ UNCHANGED <<otherVars, mainVars, mu, reqId, machine, invocations, log, sendVars>>

\* logger.Info("Sending WoL packet", ...) and the call of SendMagicPacket
CallSender(c) ==
  /\ pc[c] = "lookedUp"
  /\ machine[c] # NilMachine
  /\ log' = [log EXCEPT ![c] = Append(@,
               [level |-> "INFO", msg |-> "Sending WoL packet",
                machine_id |-> machine[c].id, machine_name |-> machine[c].name,
                mac |-> NormalizeMAC(machine[c]), broadcast |-> machine[c].broadcast])]
  /\ invocations' = [invocations EXCEPT ![c] = Append(@, SenderArgs(machine[c]))]
  /\ sendMac' = [sendMac EXCEPT ![c] = SenderArgs(machine[c]).mac]
  /\ sendBroadcast' = [sendBroadcast EXCEPT ![c] = SenderArgs(machine[c]).broadcast]
  /\ sendErr' = [sendErr EXCEPT ![c] = ""]
  /\ pc' = [pc EXCEPT ![c] = "parseMAC"]
  /\ UNCHANGED <<otherVars, mainVars, mu, reqId, machine, ret, metrics,
                 packet, conn, deferred, written>>

\* SendMagicPacket has returned: count, log and return
AfterSend(c) ==
  /\ pc[c] = "sendReturned"
  /\ IF sendErr[c] # ""
       THEN /\ metrics' = CountFailed(metrics)
            /\ log' = [log EXCEPT ![c] = Append(@,
                         [level |-> "ERROR", msg |-> "Failed to send WoL packet",
                          machine_id |-> machine[c].id])]
            /\ ret' = [ret EXCEPT ![c] =
                         IF AfterSendPc(sendErr[c]) = "done" THEN "Failed" ELSE @]
            /\ pc' = [pc EXCEPT ![c] = AfterSendPc(sendErr[c])]
       ELSE /\ metrics' = [metrics EXCEPT !.wol_sent = @ + 1]
            /\ log' = [log EXCEPT ![c] = Append(@,
                         [level |-> "INFO", msg |-> "WoL packet sent successfully",
                          machine_id |-> machine[c].id])]
            /\ ret' = [ret EXCEPT ![c] = "Sent"]
            /\ pc' = [pc EXCEPT ![c] = "done"]
  /\ UNCHANGED <<otherVars, mainVars, mu, reqId, machine, invocations, sendVars>>

(***************************************************************************)
(* YAMLMachineRepository.GetAll and Exists, one call per caller.           *)
(***************************************************************************)
\* every sequence that lists the elements of S once each
Enumerations(S) == { q \in [1..Cardinality(S) -> S] : Range(q) = S }

\* the machines the map holds
MapValues(m) == { m[id] : id \in DOMAIN m }

\* GetAll is called and takes the read lock
CallGetAll(c) ==
  /\ listening
  /\ pc[c] = "idle"
  /\ mu' = RLock(mu)
  /\ pc' = [pc EXCEPT ![c] = "GetAll"]
  /\ UNCHANGED <<otherVars, mainVars, reqId, machine, ret, invocations, log, metrics, sendVars>>

\* GetAll appends the machines in the order "range r.machines" yields them,
\* which the language leaves open, and releases the read lock
GetAllReturn(c) ==
  /\ pc[c] = "GetAll"
  /\ \E order \in Enumerations(MapValues(repo.machines)) :
       readRet' = [readRet EXCEPT ![c] =
                     [op |-> "GetAll", id |-> "", machines |-> order, exists |-> FALSE]]
  /\ mu' = RUnlock(mu)
  /\ pc' = [pc EXCEPT ![c] = "readReturned"]
  /\ UNCHANGED <<edgeVars, cancelled, validateVars, mainVars, reqId, machine, ret, invocations,
                 log, metrics, sendVars>>

\* Exists(id) is called and takes the read lock
CallExists(c, id) ==
  /\ listening
  /\ pc[c] = "idle"
  /\ readRet' = [readRet EXCEPT ![c] = [NoRead EXCEPT !.op = "Exists", !.id = id]]
  /\ mu' = RLock(mu)
  /\ pc' = [pc EXCEPT ![c] = "Exists"]
  /\ UNCHANGED <<edgeVars, cancelled, validateVars, mainVars, reqId, machine, ret, invocations,
                 log, metrics, sendVars>>

\* Exists looks the id up and releases the read lock
ExistsReturn(c) ==
  /\ pc[c] = "Exists"
  /\ readRet' = [readRet EXCEPT ![c].exists = readRet[c].id \in DOMAIN repo.machines]
  /\ repo' = [repo EXCEPT !.machines = MapAfterIndex(@, readRet[c].id)]
  /\ mu' = RUnlock(mu)
  /\ pc' = [pc EXCEPT ![c] = "readReturned"]
  /\ UNCHANGED <<edgeVars, cancelled, validateVars, cfgMachines, mainPc, runErr, ctor, listening,
                 reqId, machine, ret, invocations, log, metrics, sendVars>>

RegistryRead(c) ==
  \/ CallGetAll(c)
  \/ GetAllReturn(c)
  \/ \E id \in RequestIds : CallExists(c, id)
  \/ ExistsReturn(c)

(***************************************************************************)
(* WoLPacketSender.SendMagicPacket, step by step.                          *)
(***************************************************************************)
\* normalize and parse the MAC, build the packet, join host and port
SendParse(c) ==
  /\ pc[c] = "parseMAC"
  /\ LET macBytes == ParseMAC(normalizeMACAddress(sendMac[c]))
     IN IF macBytes = <<>>
          THEN /\ sendErr' = [sendErr EXCEPT ![c] = "invalid MAC address format"]
               /\ pc' = [pc EXCEPT ![c] = "sendExit"]
               /\ UNCHANGED packet
          ELSE /\ packet' = [packet EXCEPT ![c] = buildMagicPacket(macBytes)]
               /\ pc' = [pc EXCEPT ![c] = "dial"]
               /\ UNCHANGED sendErr
  /\ UNCHANGED <<otherVars, mainVars, useVars, sendMac, sendBroadcast, conn, deferred, written>>

\* s.dialFunc("udp", "0.0.0.0:0") and the registration of the deferred Close
SendDial(c) ==
  /\ pc[c] = "dial"
  /\ \E ok \in BOOLEAN :
       IF ok THEN /\ conn' = [conn EXCEPT ![c] = "open"]
                  /\ deferred' = [deferred EXCEPT ![c] = TRUE]
                  /\ pc' = [pc EXCEPT ![c] = "setWriteBuffer"]
                  /\ UNCHANGED sendErr
             ELSE /\ sendErr' = [sendErr EXCEPT ![c] = "failed to create UDP connection"]
                  /\ pc' = [pc EXCEPT ![c] = "sendExit"]
                  /\ UNCHANGED <<conn, deferred>>
  /\ UNCHANGED <<otherVars, mainVars, useVars, sendMac, sendBroadcast, packet, written>>

\* udpConn.SetWriteBuffer(1024); a connection that is no *net.UDPConn skips it
SendSetWriteBuffer(c) ==
  /\ pc[c] = "setWriteBuffer"
  /\ \E ok \in BOOLEAN :
       IF ok THEN /\ pc' = [pc EXCEPT ![c] = "resolve"]
                  /\ UNCHANGED sendErr
             ELSE /\ sendErr' = [sendErr EXCEPT ![c] = "failed to set write buffer"]
                  /\ pc' = [pc EXCEPT ![c] = "sendExit"]
  /\ UNCHANGED <<otherVars, mainVars, useVars, sendMac, sendBroadcast, packet, conn, deferred, written>>

\* net.ResolveUDPAddr("udp", broadcastAddr)
SendResolve(c) ==
  /\ pc[c] = "resolve"
  /\ \E dns \in BOOLEAN :
       LET result == ResolveUDPAddr(JoinHostPort(sendBroadcast[c]), dns)
       IN /\ sendErr' = [sendErr EXCEPT ![c] =
                          IF result = "ok" THEN @ ELSE "failed to resolve broadcast address"]
          /\ pc' = [pc EXCEPT ![c] = AfterResolvePc(result)]
  /\ UNCHANGED <<otherVars, mainVars, useVars, sendMac, sendBroadcast, packet, conn, deferred, written>>

\* conn.WriteTo(packet, addr): the socket write, which the network may refuse
SendWrite(c) ==
  /\ pc[c] = "write"
  /\ written' = [written EXCEPT ![c] = Append(@, Datagram(packet[c], sendBroadcast[c]))]
  /\ \E ok \in BOOLEAN :
       sendErr' = [sendErr EXCEPT ![c] = IF ok THEN "" ELSE "failed to send magic packet"]
  /\ pc' = [pc EXCEPT ![c] = AfterWritePc(sendErr'[c])]
  /\ UNCHANGED <<otherVars, mainVars, useVars, sendMac, sendBroadcast, packet, conn, deferred>>

\* the return of SendMagicPacket: the deferred function closes the socket
SendReturn(c) ==
  /\ pc[c] = "sendExit"
  /\ conn' = [conn EXCEPT ![c] = ConnAtReturn(@, deferred[c], sendErr[c])]
  /\ pc' = [pc EXCEPT ![c] = "sendReturned"]
  /\ UNCHANGED <<otherVars, mainVars, useVars, sendMac, sendBroadcast, packet, deferred, written, sendErr>>

SendMagicPacket(c) ==
  \/ SendParse(c)
  \/ SendDial(c)
  \/ SendSetWriteBuffer(c)
  \/ SendResolve(c)
  \/ SendWrite(c)
  \/ SendReturn(c)

SendWakePacket(c) ==
  \/ \E id \in RequestIds : Call(c, id)
  \/ GetByID(c)
  \/ ReturnNotFound(c)
  \/ CallSender(c)
  \/ AfterSend(c)

Run ==
  \/ LoadConfiguration
  \/ InitializeMetrics
  \/ ConstructorStart
  \/ ConstructorStep
  \/ InitializeRepositoryReturn
  \/ StartServer

Next ==
  \/ Run
  \/ \E c \in Callers : SendWakePacket(c)
  \/ \E c \in Callers : SendMagicPacket(c)

Spec == Init /\ [][Next]_vars


(***************************************************************************)
(* SendMagicPacket called directly, as the tests of the sender call it,    *)
(* with arbitrary arguments.                                               *)
(***************************************************************************)
\* every way of separating six octets with ':' and '-'
SeparatorChoices == [1..5 -> {":", "-"}]

ColonSeps(n) == [i \in 1..n |-> ":"]

MoreOctets == << <<"0","0">>, <<"1","1">> >>

\* twenty octets
TwentyOctets ==
  UpperOctets \o LowerOctets \o UpperOctets \o MoreOctets

MacSamples ==
  { JoinOctets(UpperOctets, seps) : seps \in SeparatorChoices }
  \cup { JoinOctets(LowerOctets, seps) : seps \in SeparatorChoices }
  \cup { \* five, seven, eight and twenty octets
         JoinOctets(SubSeq(UpperOctets, 1, 5), ColonSeps(4)),
         JoinOctets(UpperOctets \o <<MoreOctets[1]>>, ColonSeps(6)),
         JoinOctets(UpperOctets \o MoreOctets, ColonSeps(7)),
         JoinOctets(UpperOctets \o MoreOctets, [i \in 1..7 |-> "-"]),
         JoinOctets(TwentyOctets, ColonSeps(19)),
         \* "AA:BB:CC:DD:EE:GG", "invalid", "", "AABBCCDDEEFF"
         JoinOctets(SubSeq(UpperOctets, 1, 5) \o << <<"G","G">> >>, ColonSeps(5)),
         MacInvalid,
         <<>>,
         UpperOctets[1] \o UpperOctets[2] \o UpperOctets[3] \o UpperOctets[4]
           \o UpperOctets[5] \o UpperOctets[6],
         \* "AABB.CCDD.EEFF", "AA.BB.CC.DD.EE.FF", "A:BB:CC:DD:EE:FF", "AA:BB:CC:DD:EE:FF:"
         <<"A","A","B","B",".","C","C","D","D",".","E","E","F","F">>,
         JoinOctets(UpperOctets, [i \in 1..5 |-> "."]),
         Tail(MacColon),
         MacColon \o <<":">> }

BroadcastSamples ==
  { BroadcastA, BroadcastB, BroadcastV6,
    \* "::ffff:10.0.0.255"
    <<":",":","f","f","f","f",":">> \o BroadcastB,
    \* "invalid-broadcast"
    <<"i","n","v","a","l","i","d","-","b","r","o","a","d","c","a","s","t">>,
    \* "", "256.0.0.1", "10.0.0.255:7"
    <<>>,
    <<"2","5","6",".","0",".","0",".","1">>,
    BroadcastB \o <<":","7">> }

InitSend ==
  /\ cfgMachines = <<>>
  /\ mainPc = "test"
  /\ runErr = ""
  /\ ctor = [i |-> 0, machines |-> EmptyMap, err |-> ""]
  /\ repo = NilRepo
  /\ listening = FALSE
  /\ mu = 0
  /\ pc = [c \in Callers |-> IF c = 1 THEN "parseMAC" ELSE "idle"]
  /\ reqId = [c \in Callers |-> ""]
  /\ machine = [c \in Callers |-> NilMachine]
  /\ ret = [c \in Callers |-> "Pending"]
  /\ invocations = [c \in Callers |-> <<>>]
  /\ log = [c \in Callers |-> <<>>]
  /\ metrics = [wol_sent |-> 0, wol_failed |-> 0, machine_not_found |-> 0]
  /\ \E mac \in MacSamples : sendMac = [c \in Callers |-> IF c = 1 THEN mac ELSE <<>>]
  /\ \E b \in BroadcastSamples : sendBroadcast = [c \in Callers |-> IF c = 1 THEN b ELSE <<>>]
  /\ packet = [c \in Callers |-> <<>>]
  /\ conn = [c \in Callers |-> "none"]
  /\ deferred = [c \in Callers |-> FALSE]
  /\ written = [c \in Callers |-> <<>>]
  /\ sendErr = [c \in Callers |-> ""]
  /\ InitOther

NextSend == \E c \in Callers : SendMagicPacket(c)

SpecSend == InitSend /\ [][NextSend]_vars

(***************************************************************************)
(* SendMagicPacket under a caller whose request may be cancelled, or whose *)
(* deadline may expire, while the call runs.  SendMagicPacket(mac,         *)
(* broadcast) takes no context and sets no deadline on the socket, so no   *)
(* step of it reads the cancellation.                                      *)
(***************************************************************************)
\* the request of caller c is cancelled, or its deadline expires, before the
\* socket write of its SendMagicPacket call has completed
CancelRequest(c) ==
  /\ pc[c] \in {"parseMAC", "dial", "setWriteBuffer", "resolve", "write"}
  /\ ~cancelled[c]
  /\ cancelled' = [cancelled EXCEPT ![c] = TRUE]
  /\ UNCHANGED <<edgeVars, mainVars, callVars, sendVars, readRet, validateVars>>

NextCancel ==
  \/ \E c \in Callers : SendMagicPacket(c)
  \/ \E c \in Callers : CancelRequest(c)

SpecCancel == InitSend /\ [][NextCancel]_vars

(***************************************************************************)
(* The constructed registry in a process that serves: concurrent reads and *)
(* dispatches.                                                             *)
(***************************************************************************)
\* run() has constructed the registry from the configuration and serves
InitServing ==
  /\ cfgMachines \in { cfg \in Configs : Construct(cfg).err = "" }
  /\ mainPc = "serving"
  /\ runErr = ""
  /\ ctor = Construct(cfgMachines)
  /\ repo = ConstructorReturn(ctor)
  /\ listening = TRUE
  /\ InitCallers
  /\ InitOther

NextRegistry ==
  \/ \E c \in Callers : RegistryRead(c)
  \/ \E c \in Callers : SendWakePacket(c)
  \/ \E c \in Callers : SendMagicPacket(c)

SpecRegistry == InitServing /\ [][NextRegistry]_vars

\* the reads alone: GetByID (as GetMachine calls it), GetAll and Exists
NextReads ==
  \/ \E c \in Callers : RegistryRead(c)
  \/ \E c \in Callers, id \in RequestIds : Call(c, id)
  \/ \E c \in Callers : GetByID(c)

\* a read that holds the lock is not blocked by anything: it goes on
ReadReturns(c) == GetByID(c) \/ GetAllReturn(c) \/ ExistsReturn(c)

SpecReads ==
  /\ InitServing
  /\ [][NextReads]_vars
  /\ \A c \in Callers : WF_vars(ReadReturns(c))

(***************************************************************************)
(* The validators of the domain package called on arbitrary strings.       *)
(***************************************************************************)
\* "::ffff:10.0.0.255": the IPv4-mapped IPv6 form of 10.0.0.255
BroadcastMapped == <<":",":","f","f","f","f",":">> \o BroadcastB

AddressSamples ==
  BroadcastSamples
  \cup { \* "0.0.0.0", "255.255.255.255", "1.2.3", "1.2.3.4.5", "192.168.01.255"
         <<"0",".","0",".","0",".","0">>,
         <<"2","5","5",".","2","5","5",".","2","5","5",".","2","5","5">>,
         <<"1",".","2",".","3">>,
         <<"1",".","2",".","3",".","4",".","5">>,
         <<"1","9","2",".","1","6","8",".","0","1",".","2","5","5">>,
         \* "::1", "::", "2001:db8::1", "::ffff:a00:ff"
         <<":",":","1">>,
         <<":",":">>,
         <<"2","0","0","1",":","d","b","8",":",":","1">>,
         <<":",":","f","f","f","f",":","a","0","0",":","f","f">>,
         \* "0:0:0:0:0:ffff:10.0.0.255", "fe80::1%eth0", "::10.0.0.255"
         <<"0",":","0",":","0",":","0",":","0",":","f","f","f","f",":">> \o BroadcastB,
         BroadcastV6 \o <<"%","e","t","h","0">>,
         <<":",":">> \o BroadcastB }

InitValidate ==
  /\ cfgMachines = <<>>
  /\ mainPc = "test"
  /\ runErr = ""
  /\ ctor = [i |-> 0, machines |-> EmptyMap, err |-> ""]
  /\ repo = NilRepo
  /\ listening = FALSE
  /\ InitCallers
  /\ cancelled = [c \in Callers |-> FALSE]
  /\ readRet = [c \in Callers |-> NoRead]
  /\ \E mac \in MacSamples, b \in AddressSamples : vInput = [mac |-> mac, broadcast |-> b]
  /\ vResult = NotValidated
  /\ InitEdge

\* ValidateMAC(mac)
CallValidateMAC ==
  /\ vResult.mac = "unset"
  /\ vResult' = [vResult EXCEPT !.mac = IF ValidateMAC(vInput.mac) THEN "ok" ELSE "error"]
  /\ UNCHANGED <<edgeVars, mainVars, callVars, sendVars, cancelled, readRet, vInput>>

\* ValidateBroadcast(broadcast)
CallValidateBroadcast ==
  /\ vResult.broadcast = "unset"
  /\ vResult' = [vResult EXCEPT !.broadcast =
                   IF ValidateBroadcast(vInput.broadcast) THEN "ok" ELSE "error"]
  /\ UNCHANGED <<edgeVars, mainVars, callVars, sendVars, cancelled, readRet, vInput>>

\* Machine.Validate on a machine with these two fields
CallValidate ==
  /\ vResult.machine = "unset"
  /\ vResult' = [vResult EXCEPT !.machine =
                   Validate(Rec("a", "Dev Box", vInput.mac, vInput.broadcast))]
  /\ UNCHANGED <<edgeVars, mainVars, callVars, sendVars, cancelled, readRet, vInput>>

NextValidate ==
  \/ CallValidateMAC
  \/ CallValidateBroadcast
  \/ CallValidate

SpecValidate == InitValidate /\ [][NextValidate]_vars

(***************************************************************************)
(* The HTTP server: every caller sends one request, which the router       *)
(* matches, passes through the middleware of its group and hands to the    *)
(* endpoint handler.                                                       *)
(***************************************************************************)
\* the keys a configuration may set, and the X-API-Key headers a request may
\* carry ("" for no header)
ConfiguredKeys == {"", "secret"}
HeaderKeys == {"", "secret", "wrong-key"}

\* the machine ids a request may name
HTTPIds == {"a", "nonexistent"}

\* the registry the server holds behind the protected endpoints
HTTPConfigs == { <<Rec("a", "Dev Box", MacColon, BroadcastA)>> }

\* POST /wol with {"machine_id": id}, or with a body that does not bind
WakeRequests ==
  [route : {"POST /wol"}, key : HeaderKeys, body : {"ok"}, id : HTTPIds]
    \cup [route : {"POST /wol"}, key : HeaderKeys, body : {"malformed"}, id : {""}]

\* GET /machines and GET /machines/:id
ReadRequests ==
  [route : {"GET /machines"}, key : HeaderKeys, body : {""}, id : {""}]
    \cup [route : {"GET /machines/:id"}, key : HeaderKeys, body : {""}, id : HTTPIds]

\* one request without X-API-Key header for every route
RoutingRequests ==
  { [route |-> r, key |-> "",
     body |-> IF r = "POST /wol" THEN "ok" ELSE "",
     id |-> IF r \in {"POST /wol", "GET /machines/:id"} THEN "a" ELSE ""] : r \in AllRoutes }

\* everything but the exchanges and the router
nonHttpVars == <<mainVars, callVars, sendVars, cancelled, readRet, validateVars, loadVars, stopVars>>

\* c.JSON(code, ...): the handler answers and the exchange is over
Respond(c, code, answer) ==
  http' = [http EXCEPT ![c].stage = "responded", ![c].status = code, ![c].answer = answer]

\* c.JSON(code, response) of the health handlers: the status and the
\* "machines" check of the response
RespondHealth(c, response) ==
  http' = [http EXCEPT ![c].stage = "responded", ![c].status = response.code,
                       ![c].answer = response.status, ![c].check = response.machines]

\* gin's ServeHTTP: no route matches (404), a middleware aborts, or the
\* endpoint handler is entered
ServeHTTP(c, req) ==
  /\ listening
  /\ http[c].stage = "idle"
  /\ IF req.route \notin router.routes
       THEN http' = [http EXCEPT ![c] =
                       [NoExchange EXCEPT !.req = req, !.stage = "responded", !.status = 404]]
       ELSE IF RouteMiddleware(router, req) # 0
         THEN http' = [http EXCEPT ![c] =
                         [NoExchange EXCEPT !.req = req, !.stage = "responded",
                                            !.status = RouteMiddleware(router, req)]]
         ELSE http' = [http EXCEPT ![c] =
                         [NoExchange EXCEPT !.req = req, !.stage = "handler"]]
  /\ UNCHANGED <<router, observability, nonHttpVars>>

\* the endpoint handler of route has been entered for caller c
InHandler(c, route) == http[c].stage = "handler" /\ http[c].req.route = route

\* Handler.Wake: ShouldBindJSON fails
WakeBadRequest(c) ==
  /\ InHandler(c, "POST /wol")
  /\ http[c].req.body = "malformed"
  /\ Respond(c, 400, "Invalid request")
  /\ UNCHANGED <<router, observability, nonHttpVars>>

\* Handler.Wake: the call of wolUseCase.SendWakePacket(req.MachineID)
WakeCall(c) ==
  /\ InHandler(c, "POST /wol")
  /\ http[c].req.body = "ok"
  /\ Call(c, http[c].req.id)

\* Handler.Wake: SendWakePacket runs
WakeDispatch(c) ==
  /\ InHandler(c, "POST /wol")
  /\ \/ GetByID(c)
     \/ ReturnNotFound(c)
     \/ CallSender(c)
     \/ SendMagicPacket(c)
     \/ AfterSend(c)

\* Handler.Wake: SendWakePacket has returned; the status follows its error
WakeRespond(c) ==
  /\ InHandler(c, "POST /wol")
  /\ pc[c] = "done"
  /\ Respond(c, WakeStatus(SendWakePacketError(ret[c], sendErr[c])), ret[c])
  /\ UNCHANGED <<router, observability, nonHttpVars>>

Wake(c) == WakeBadRequest(c) \/ WakeCall(c) \/ WakeDispatch(c) \/ WakeRespond(c)

\* Handler.ListMachines: ListMachines calls GetAll, whose error is always nil
ListMachines(c) ==
  /\ InHandler(c, "GET /machines")
  /\ \/ CallGetAll(c)
     \/ GetAllReturn(c)
     \/ /\ pc[c] = "readReturned"
        /\ Respond(c, 200, "machines")
        /\ UNCHANGED <<router, observability, nonHttpVars>>

\* Handler.GetMachine: GetMachine calls GetByID
GetMachine(c) ==
  /\ InHandler(c, "GET /machines/:id")
  /\ \/ Call(c, http[c].req.id)
     \/ GetByID(c)
     \/ /\ pc[c] = "lookedUp"
        /\ Respond(c, GetMachineStatus(machine[c]), machine[c].id)
        /\ UNCHANGED <<router, observability, nonHttpVars>>

\* run() serves with the registry built from cfg behind the router built
\* for one of the keys and one of the observability settings
InitServer(configs, keys, settings) ==
  /\ cfgMachines \in configs
  /\ mainPc = "serving"
  /\ runErr = ""
  /\ ctor = Construct(cfgMachines)
  /\ repo = ConstructorReturn(ctor)
  /\ listening = TRUE
  /\ InitCallers
  /\ cancelled = [c \in Callers |-> FALSE]
  /\ readRet = [c \in Callers |-> NoRead]
  /\ vInput = [mac |-> <<>>, broadcast |-> <<>>]
  /\ vResult = NotValidated
  /\ observability \in settings
  /\ \E apiKey \in keys : router = NewRouterWithAuthAndConfig(apiKey, observability)
  /\ http = [c \in Callers |-> NoExchange]
  /\ InitLoadIdle
  /\ InitStopIdle

\* the protected endpoints behind a router built with a key, as
\* NewRouterWithAuth(handler, key) builds it
InitHTTP == InitServer(HTTPConfigs, ConfiguredKeys \ {""}, {NilConfig})

NextHTTP ==
  \/ \E c \in Callers, req \in WakeRequests \cup ReadRequests : ServeHTTP(c, req)
  \/ \E c \in Callers : Wake(c)
  \/ \E c \in Callers : ListMachines(c)
  \/ \E c \in Callers : GetMachine(c)

SpecHTTP == InitHTTP /\ [][NextHTTP]_vars

(***************************************************************************)
(* The router built from the observability settings: which routes it       *)
(* matches, and what the health, metrics and version handlers answer.      *)
(***************************************************************************)
\* the registries the server may hold behind the health endpoints
RouterConfigs == { <<>>, <<Rec("a", "Dev Box", MacColon, BroadcastA)>> }

\* the error of YAMLMachineRepository.GetAll: always nil
GetAllError == ""

\* HealthHandler.HealthCheckFull: ListMachines, then the response
HealthCheckFull(c) ==
  /\ InHandler(c, "GET /health")
  /\ \/ CallGetAll(c)
     \/ GetAllReturn(c)
     \/ /\ pc[c] = "readReturned"
        /\ RespondHealth(c, HealthCheckFullResponse(readRet[c].machines, GetAllError))
        /\ UNCHANGED <<router, observability, nonHttpVars>>

\* HealthHandler.HealthCheckReady: ListMachines, then the response
HealthCheckReady(c) ==
  /\ InHandler(c, "GET /ready")
  /\ \/ CallGetAll(c)
     \/ GetAllReturn(c)
     \/ /\ pc[c] = "readReturned"
        /\ RespondHealth(c, HealthCheckReadyResponse(readRet[c].machines, GetAllError))
        /\ UNCHANGED <<router, observability, nonHttpVars>>

\* HealthHandler.HealthCheckLive
HealthCheckLive(c) ==
  /\ InHandler(c, "GET /live")
  /\ Respond(c, 200, "alive")
  /\ UNCHANGED <<router, observability, nonHttpVars>>

\* Handler.Version
Version(c) ==
  /\ InHandler(c, "GET /version")
  /\ Respond(c, 200, "version")
  /\ UNCHANGED <<router, observability, nonHttpVars>>

\* gin.WrapH(infrastructure.MetricsHandler())
MetricsHandler(c) ==
  /\ InHandler(c, "GET /metrics")
  /\ Respond(c, 200, "metrics")
  /\ UNCHANGED <<router, observability, nonHttpVars>>

\* the server behind the router NewRouterWithConfig builds from the
\* configured key and observability settings
InitRouter == InitServer(RouterConfigs, ConfiguredKeys, ObservabilityConfigs)

NextRouter ==
  \/ \E c \in Callers, req \in RoutingRequests : ServeHTTP(c, req)
  \/ \E c \in Callers : HealthCheckFull(c)
  \/ \E c \in Callers : HealthCheckReady(c)
  \/ \E c \in Callers : HealthCheckLive(c)
  \/ \E c \in Callers : Version(c)
  \/ \E c \in Callers : MetricsHandler(c)

SpecRouter == InitRouter /\ [][NextRouter]_vars

(***************************************************************************)
(* LoadConfig on a configuration file and an environment, and              *)
(* Config.Validate on the configuration it returns.                        *)
(***************************************************************************)
\* "9090", "0", "not-a-number"
Port9090 == <<"9","0","9","0">>
PortZero == <<"0">>
PortNotANumber == <<"n","o","t","-","a","-","n","u","m","b","e","r">>

\* the machines a configuration file may list: none, a valid one, one with a
\* dash-separated MAC, one with an invalid MAC
FileMachines ==
  { <<>>,
    <<Rec("a", "Dev Box", MacColon, BroadcastA)>>,
    <<Rec("a", "Dev Box", MacColon, BroadcastA), Rec("b", "Nas", MacDash, BroadcastB)>>,
    <<Rec("a", "Dev Box", MacInvalid, BroadcastA)>> }

\* the configuration files: unreadable, not YAML, and the fields a YAML file
\* sets (the empty file sets none)
ConfigFiles ==
  { [readable |-> FALSE, yaml |-> FALSE, fields |-> ZeroConfig],
    [readable |-> TRUE, yaml |-> FALSE, fields |-> ZeroConfig] }
  \cup [readable : {TRUE}, yaml : {TRUE},
        fields : [port : {0, 8080, 70000}, format : {"", "json", "xml"},
                  level : {"", "debug"}, apiKey : {"", "secret"},
                  machines : FileMachines, health : {"nil", "false"}, metrics : {"nil"}]]

\* the environments: each variable unset ("") or set
Environments ==
  [GWAIHIR_PORT : {<<>>, Port9090, PortZero, PortNotANumber},
   GWAIHIR_LOG_FORMAT : {"", "json"},
   GWAIHIR_LOG_LEVEL : {"", "verbose"},
   GWAIHIR_API_KEY : {"", "env-key"}]

\* everything but the state of LoadConfig
nonLoadVars == <<mainVars, callVars, sendVars, cancelled, readRet, validateVars, httpVars, stopVars>>

\* data, err := os.ReadFile(path)
ReadFile ==
  /\ loadPc = "ReadFile"
  /\ IF configFile.readable
       THEN /\ loadPc' = "Unmarshal"
            /\ UNCHANGED loadRet
       ELSE /\ loadPc' = "returned"
            /\ loadRet' = [isNil |-> TRUE, cfg |-> ZeroConfig,
                           err |-> "failed to read config file"]
  /\ UNCHANGED <<configFile, environ, loadCfg, validateRet, nonLoadVars>>

\* yaml.Unmarshal(data, &cfg)
Unmarshal ==
  /\ loadPc = "Unmarshal"
  /\ IF configFile.yaml
       THEN /\ loadCfg' = configFile.fields
            /\ loadPc' = "setDefaults"
            /\ UNCHANGED loadRet
       ELSE /\ loadPc' = "returned"
            /\ loadRet' = [isNil |-> TRUE, cfg |-> ZeroConfig,
                           err |-> "failed to parse config file"]
            /\ UNCHANGED loadCfg
  /\ UNCHANGED <<configFile, environ, validateRet, nonLoadVars>>

\* setDefaults(&cfg)
SetDefaults ==
  /\ loadPc = "setDefaults"
  /\ loadCfg' = setDefaults(loadCfg)
  /\ loadPc' = "applyEnvOverrides"
  /\ UNCHANGED <<configFile, environ, loadRet, validateRet, nonLoadVars>>

\* applyEnvOverrides(&cfg)
ApplyEnvOverrides ==
  /\ loadPc = "applyEnvOverrides"
  /\ loadCfg' = applyEnvOverrides(loadCfg, environ)
  /\ loadPc' = "return"
  /\ UNCHANGED <<configFile, environ, loadRet, validateRet, nonLoadVars>>

\* return &cfg, nil
LoadReturn ==
  /\ loadPc = "return"
  /\ loadRet' = [isNil |-> FALSE, cfg |-> loadCfg, err |-> ""]
  /\ loadPc' = "returned"
  /\ UNCHANGED <<configFile, environ, loadCfg, validateRet, nonLoadVars>>

\* cfg.Validate() on the configuration LoadConfig returned
CallConfigValidate ==
  /\ loadPc = "returned"
  /\ ~loadRet.isNil
  /\ validateRet = "unset"
  /\ validateRet' = ConfigValidate(loadRet.cfg)
  /\ UNCHANGED <<configFile, environ, loadPc, loadCfg, loadRet, nonLoadVars>>

LoadConfig == ReadFile \/ Unmarshal \/ SetDefaults \/ ApplyEnvOverrides \/ LoadReturn

\* LoadConfig(path) is called in some environment on some file
InitConfig ==
  /\ cfgMachines = <<>>
  /\ mainPc = "loadConfiguration"
  /\ runErr = ""
  /\ ctor = [i |-> 0, machines |-> EmptyMap, err |-> ""]
  /\ repo = NilRepo
  /\ listening = FALSE
  /\ InitCallers
  /\ cancelled = [c \in Callers |-> FALSE]
  /\ readRet = [c \in Callers |-> NoRead]
  /\ vInput = [mac |-> <<>>, broadcast |-> <<>>]
  /\ vResult = NotValidated
  /\ InitHTTPIdle
  /\ configFile \in ConfigFiles
  /\ environ \in Environments
  /\ loadPc = "ReadFile"
  /\ loadCfg = ZeroConfig
  /\ loadRet = NotLoaded
  /\ validateRet = "unset"
  /\ InitStopIdle

NextConfig == LoadConfig \/ CallConfigValidate

SpecConfig == InitConfig /\ [][NextConfig]_vars

(***************************************************************************)
(* startServer: ListenAndServe in the goroutine of run(), and the          *)
(* goroutine that waits for SIGINT or SIGTERM and calls server.Shutdown.   *)
(***************************************************************************)
\* one request without X-API-Key header for every public route
PublicRequests == { req \in RoutingRequests : req.route \notin ProtectedRoutes }

\* the handler of caller c's request has been entered and has not answered
InFlight(c) == http[c].stage = "handler"

\* everything but the state of the shutdown
nonStopVars ==
  <<cfgMachines, runErr, ctor, repo, callVars, sendVars, cancelled, readRet,
    validateVars, httpVars, loadVars>>

\* SIGINT or SIGTERM is delivered to the channel of the goroutine
Signal ==
  /\ mainPc = "serving"
  /\ ~sigint
  /\ sigint' = TRUE
  /\ UNCHANGED <<mainPc, listening, shutdown, nonStopVars>>

\* the goroutine receives from the channel and calls server.Shutdown(ctx),
\* which closes the listeners
CallShutdown ==
  /\ mainPc = "serving"
  /\ sigint
  /\ shutdown = "none"
  /\ shutdown' = "running"
  /\ listening' = FALSE
  /\ UNCHANGED <<mainPc, sigint, nonStopVars>>

\* server.Shutdown returns nil once no request is in flight
ShutdownReturn ==
  /\ mainPc = "serving"
  /\ shutdown = "running"
  /\ \A c \in Callers : ~InFlight(c)
  /\ shutdown' = "returned"
  /\ UNCHANGED <<mainPc, listening, sigint, nonStopVars>>

\* the context of server.Shutdown expires while a request is in flight:
\* Shutdown returns the error of the context
ShutdownTimeout ==
  /\ mainPc = "serving"
  /\ shutdown = "running"
  /\ \E c \in Callers : InFlight(c)
  /\ shutdown' = "timed out"
  /\ UNCHANGED <<mainPc, listening, sigint, nonStopVars>>

\* ListenAndServe returns http.ErrServerClosed as soon as Shutdown has been
\* called; startServer logs "Server stopped gracefully" and returns nil, run
\* returns nil and main returns: the process exits
ListenAndServeReturn ==
  /\ mainPc = "serving"
  /\ shutdown # "none"
  /\ mainPc' = "exited"
  /\ UNCHANGED <<listening, sigint, shutdown, nonStopVars>>

\* the handlers of the public endpoints, while the process runs
ServeWhileRunning(c) ==
  /\ mainPc = "serving"
  /\ \/ \E req \in PublicRequests : ServeHTTP(c, req)
     \/ HealthCheckFull(c)
     \/ HealthCheckReady(c)
     \/ HealthCheckLive(c)
     \/ Version(c)
     \/ MetricsHandler(c)

\* run() is inside startServer, behind the router NewRouterWithConfig built
InitShutdown == InitServer(RouterConfigs, {""}, {NilConfig})

NextShutdown ==
  \/ Signal
  \/ CallShutdown
  \/ ShutdownReturn
  \/ ShutdownTimeout
  \/ ListenAndServeReturn
  \/ \E c \in Callers : ServeWhileRunning(c)

SpecShutdown == InitShutdown /\ [][NextShutdown]_vars

(***************************************************************************)
(* A dispatch from a registry built from one record whose MAC and          *)
(* broadcast are arbitrary: whatever the constructor accepted is handed to *)
(* SendMagicPacket.                                                        *)
(***************************************************************************)
\* the configurations of one record over the sample strings
SampleConfigs ==
  { <<Rec("a", "Dev Box", mac, b)>> : mac \in MacSamples, b \in AddressSamples }

\* the constructor accepted the record, the server serves, and the first
\* caller has called SendWakePacket("a"), which holds the read lock
InitAccepted ==
  /\ cfgMachines \in { input \in SampleConfigs : Construct(input).err = "" }
  /\ mainPc = "serving"
  /\ runErr = ""
  /\ ctor = Construct(cfgMachines)
  /\ repo = ConstructorReturn(ctor)
  /\ listening = TRUE
  /\ mu = RLock(0)
  /\ pc = [c \in Callers |-> IF c = 1 THEN "GetByID" ELSE "idle"]
  /\ reqId = [c \in Callers |-> IF c = 1 THEN "a" ELSE ""]
  /\ machine = [c \in Callers |-> NilMachine]
  /\ ret = [c \in Callers |-> "Pending"]
  /\ invocations = [c \in Callers |-> <<>>]
  /\ log = [c \in Callers |-> <<>>]
  /\ metrics = [wol_sent |-> 0, wol_failed |-> 0, machine_not_found |-> 0]
  /\ sendMac = [c \in Callers |-> <<>>]
  /\ sendBroadcast = [c \in Callers |-> <<>>]
  /\ packet = [c \in Callers |-> <<>>]
  /\ conn = [c \in Callers |-> "none"]
  /\ deferred = [c \in Callers |-> FALSE]
  /\ written = [c \in Callers |-> <<>>]
  /\ sendErr = [c \in Callers |-> ""]
  /\ InitOther

NextAccepted ==
  \/ \E c \in Callers : GetByID(c)
  \/ \E c \in Callers : CallSender(c)
  \/ \E c \in Callers : SendMagicPacket(c)
  \/ \E c \in Callers : AfterSend(c)

SpecAccepted == InitAccepted /\ [][NextAccepted]_vars

(***************************************************************************)
(* Properties.                                                             *)
(***************************************************************************)
\* the positions of a caller inside SendMagicPacket
SendPcs == {"parseMAC", "dial", "setWriteBuffer", "resolve", "write", "sendExit"}

\* the outcomes a call reports
Terminal == {"Sent", "Failed", "NotFound"}

\* the ids the constructed registry holds
RegistryIds == IF repo.isNil THEN {} ELSE DOMAIN repo.machines

\* C1: every SendMagicPacket call a SendWakePacket(id) call makes carries the
\* mac and the broadcast the registry stores under that same id, and those
\* are the arguments SendMagicPacket works on.
C1_InvocationCarriesRegistryFields ==
  \A c \in Callers :
    /\ invocations[c] # <<>> => reqId[c] \in RegistryIds
    /\ \A k \in DOMAIN invocations[c] :
         /\ invocations[c][k].mac = repo.machines[reqId[c]].mac
         /\ invocations[c][k].broadcast = repo.machines[reqId[c]].broadcast
    /\ pc[c] \in SendPcs =>
         /\ sendMac[c] = repo.machines[reqId[c]].mac
         /\ sendBroadcast[c] = repo.machines[reqId[c]].broadcast

\* C1 witness: a call for a machine whose stored MAC is not in canonical
\* form has invoked the transmitter with the MAC as stored.
C1_Witness ==
  \E c \in Callers :
    /\ Len(invocations[c]) = 1
    /\ invocations[c][1].mac = MacDash
    /\ NormalizeMAC(machine[c]) # MacDash
    /\ pc[c] = "done"

\* C2: a SendWakePacket call for an id the registry does not hold never
\* invokes the transmitter, builds no packet, opens no socket and writes
\* nothing, and it returns NotFound.
C2_UnknownIdNeverTransmits ==
  \A c \in Callers :
    (pc[c] # "idle" /\ reqId[c] \notin RegistryIds) =>
      /\ invocations[c] = <<>>
      /\ packet[c] = <<>>
      /\ conn[c] = "none"
      /\ written[c] = <<>>
      /\ pc[c] \in {"GetByID", "lookedUp", "done"}
      /\ pc[c] = "done" => ret[c] = "NotFound"

\* C2 witness: a call for an unknown id on a non-empty registry has returned.
C2_Witness ==
  \E c \in Callers :
    /\ pc[c] = "done"
    /\ reqId[c] = "nonexistent"
    /\ RegistryIds # {}
    /\ ret[c] = "NotFound"

\* the sample records that fail Validate
InvalidRecords == { r \in Records : Validate(r) # "" }

\* some record of the input fails Validate
HasInvalid(input) == \E i \in DOMAIN input : input[i] \in InvalidRecords

\* two records of the input share an id
HasDuplicate(input) ==
  \E i, j \in DOMAIN input : i < j /\ input[i].id = input[j].id

\* the constructor has returned to run()
ConstructorReturned == mainPc \in {"constructed", "startServer", "serving"}

\* C3: the constructor returns either an error and no repository, or a
\* repository that holds every record of the input, each under its own id;
\* an input with an invalid or duplicated record yields no repository.
C3_AllOrNothing ==
  /\ ~repo.isNil =>
       /\ ctor.err = ""
       /\ DOMAIN repo.machines = { cfgMachines[i].id : i \in DOMAIN cfgMachines }
       /\ \A i \in DOMAIN cfgMachines : repo.machines[cfgMachines[i].id] = cfgMachines[i]
       /\ ~HasInvalid(cfgMachines)
       /\ ~HasDuplicate(cfgMachines)
  /\ (ConstructorReturned /\ (HasInvalid(cfgMachines) \/ HasDuplicate(cfgMachines))) =>
       /\ repo.isNil
       /\ ctor.err # ""

\* C3 witness: the constructor failed on a later record after it had
\* inserted an earlier one, and returned no repository.
C3_Witness ==
  /\ mainPc = "constructed"
  /\ ctor.err # ""
  /\ DOMAIN ctor.machines # {}
  /\ repo.isNil

\* index of the first record that repeats the id of an earlier record
FirstRepeat(input) ==
  CHOOSE j \in DOMAIN input :
    /\ \E i \in 1..(j - 1) : input[i].id = input[j].id
    /\ \A k \in 1..(j - 1) : ~\E i \in 1..(k - 1) : input[i].id = input[k].id

\* the loop of the constructor has run and the constructor has returned
LoopReturned == mainPc = "constructed" /\ ctor.i > 0

\* C4 as claimed: an input in which two records share an id always fails
\* with the duplicate error, whatever the other fields are.
C4_DuplicateAlwaysDuplicateError ==
  (LoopReturned /\ HasDuplicate(cfgMachines)) => ctor.err = "duplicate machine ID"

\* C4 amended: an input in which two records share an id always fails and
\* yields no repository; the error is the duplicate error when every record
\* up to and including the first repeated id passes Validate, and the
\* invalid-machine error of the first invalid record otherwise.
C4_DuplicateAlwaysFails ==
  (LoopReturned /\ HasDuplicate(cfgMachines)) =>
    /\ repo.isNil
    /\ ctor.err = IF \A k \in 1..FirstRepeat(cfgMachines) : Validate(cfgMachines[k]) = ""
                    THEN "duplicate machine ID"
                    ELSE "invalid machine"

\* C4 witness: two valid records that share an id and differ in every other
\* field were rejected as duplicates.
C4_Witness ==
  /\ LoopReturned
  /\ Len(cfgMachines) = 2
  /\ cfgMachines[1].id = cfgMachines[2].id
  /\ cfgMachines[1].name # cfgMachines[2].name
  /\ cfgMachines[1].mac # cfgMachines[2].mac
  /\ cfgMachines[1].broadcast # cfgMachines[2].broadcast
  /\ ctor.err = "duplicate machine ID"

\* C5: the server listens, and a request is served, only with a fully
\* constructed repository; a constructor failure makes run() return an
\* error without reaching startServer.
C5_NoServingWithoutRegistry ==
  /\ listening => (~repo.isNil /\ ctor.err = "")
  /\ mainPc \in {"startServer", "serving"} => (~repo.isNil /\ ctor.err = "")
  /\ ctor.err # "" =>
       /\ mainPc \in {"constructed", "exited"}
       /\ mainPc = "exited" => runErr = "failed to initialize repository"
  /\ \A c \in Callers : pc[c] # "idle" => ~repo.isNil

\* C5 witness: the constructor failed and run() returned its error.
C5_Witness ==
  /\ ctor.err # ""
  /\ mainPc = "exited"
  /\ runErr = "failed to initialize repository"
  /\ ~listening

\* C6: a call is Pending until it returns, returns exactly one of Sent,
\* Failed, NotFound, never changes its outcome afterwards, and invokes the
\* transmitter at most once.
C6_LinearRequest ==
  [][\A c \in Callers :
       /\ ret[c] \in {"Pending"} \cup Terminal
       /\ (pc[c] = "done") <=> (ret[c] \in Terminal)
       /\ ret'[c] # ret[c] => (ret[c] = "Pending" /\ ret'[c] \in Terminal /\ pc'[c] = "done")
       /\ pc[c] = "done" => pc'[c] = "done"
       /\ Len(invocations'[c]) <= 1
       /\ Len(written'[c]) <= 1]_vars

\* C6 witness: a call whose transmission failed has returned Failed after
\* one transmitter invocation.
C6_Witness ==
  \E c \in Callers :
    /\ ret[c] = "Failed"
    /\ pc[c] = "done"
    /\ Len(invocations[c]) = 1

\* the number of calls that returned the outcome r
Returned(r) == Cardinality({ c \in Callers : ret[c] = r })

\* C7 as claimed: every call that returned an error has incremented its
\* counter and has emitted a diagnostic event about the failure.
C7_FailureCountedAndLogged ==
  /\ metrics.machine_not_found = Returned("NotFound")
  /\ metrics.wol_failed = Returned("Failed")
  /\ \A c \in Callers :
       ret[c] \in {"Failed", "NotFound"} =>
         \E k \in DOMAIN log[c] : log[c][k].level \in {"WARN", "ERROR"}

\* the record the configuration lists under id
OwnRecord(id) == CHOOSE r \in Range(cfgMachines) : r.id = id

\* the callers of S have all returned, for pairwise different ids that the
\* configuration lists
DifferentValidIds(S) ==
  /\ S # {}
  /\ \A c \in S : pc[c] = "done" /\ reqId[c] \in RegistryIds
  /\ \A c, d \in S : c # d => reqId[c] # reqId[d]

\* C8 as claimed: calls for pairwise different valid ids all succeed, each
\* after exactly one transmitter invocation with its own machine's mac and
\* broadcast.
C8_DifferentIdsAllSucceed ==
  \A S \in SUBSET Callers :
    DifferentValidIds(S) =>
      \A c \in S :
        /\ ret[c] = "Sent"
        /\ invocations[c] = << [mac |-> OwnRecord(reqId[c]).mac,
                                broadcast |-> OwnRecord(reqId[c]).broadcast] >>

\* C8 amended: calls for pairwise different valid ids each make exactly one
\* transmitter invocation with their own machine's mac and broadcast, and
\* each succeeds exactly when its own invocation returned no error,
\* whatever the other calls do.
C8_DifferentIdsIndependent ==
  \A S \in SUBSET Callers :
    DifferentValidIds(S) =>
      \A c \in S :
        /\ ret[c] = IF sendErr[c] = "" THEN "Sent" ELSE "Failed"
        /\ invocations[c] = << [mac |-> OwnRecord(reqId[c]).mac,
                                broadcast |-> OwnRecord(reqId[c]).broadcast] >>

\* C8 witness: two calls for two machines with different addresses have both
\* returned Sent.
C8_Witness ==
  \E c, d \in Callers :
    /\ DifferentValidIds({c, d})
    /\ c # d
    /\ ret[c] = "Sent" /\ ret[d] = "Sent"
    /\ invocations[c][1].mac # invocations[d][1].mac
    /\ invocations[c][1].broadcast # invocations[d][1].broadcast

\* C9: calls for the same valid id are not coalesced: once they have
\* returned, each has made its own transmitter invocation, so the callers of
\* any set S have made exactly Cardinality(S) invocations.
C9_SameIdNotCoalesced ==
  \A S \in SUBSET Callers :
    (/\ \A c \in S : pc[c] = "done" /\ reqId[c] \in RegistryIds
     /\ \A c, d \in S : reqId[c] = reqId[d]) =>
      /\ \A c \in S : Len(invocations[c]) = 1
      /\ Cardinality({ c \in S : invocations[c] # <<>> }) = Cardinality(S)

\* C9 witness: every caller asked for the same machine and each call was
\* transmitted.
C9_Witness ==
  /\ NumCallers >= 2
  /\ \A c \in Callers : pc[c] = "done" /\ reqId[c] = "a" /\ Len(invocations[c]) = 1
  /\ "a" \in RegistryIds

\* the MAC grammar of the specification: six 2-digit hexadecimal octets
\* joined by five ':' or by five '-'
WrongLength(mac) == Len(mac) # 17
NonHex(mac) == \E i \in DOMAIN mac : ~IsHexChar(mac[i]) /\ mac[i] \notin {":", "-"}
MixedSeparators(mac) == Contains(mac, ":") /\ Contains(mac, "-")
Malformed(mac) == WrongLength(mac) \/ NonHex(mac) \/ MixedSeparators(mac)

\* C10 as claimed: SendMagicPacket on a malformed MAC (wrong length,
\* non-hexadecimal characters, mixed separators) never reaches the socket
\* write and returns an error.
C10_MalformedNeverWritten ==
  \A c \in Callers :
    (pc[c] \in SendPcs \cup {"sendReturned"} /\ Malformed(sendMac[c])) =>
      /\ pc[c] # "write"
      /\ written[c] = <<>>
      /\ pc[c] = "sendReturned" => sendErr[c] # ""

\* the separators of a 17-character MAC string
Separators(mac) == { mac[3 * k] : k \in 1..5 }

\* six 2-digit hexadecimal octets joined by five ':' or by five '-'
UniformMAC(mac) ==
  /\ Len(mac) = 17
  /\ \A i \in 1..17 : i % 3 # 0 => IsHexChar(mac[i])
  /\ Separators(mac) \in {{":"}, {"-"}}

\* C11 as claimed: ValidateMAC accepts a string if and only if it is six
\* 2-digit hexadecimal octets joined by five separators that are all ':' or
\* all '-'; a string that mixes ':' and '-' is rejected.
C11_ValidateMACUniformOnly ==
  vResult.mac # "unset" => (vResult.mac = "ok" <=> UniformMAC(vInput.mac))

\* an IPv4 address in dotted-quad form: four decimal fields of 0..255
IsDottedQuad(s) == ~Contains(s, ":") /\ ~Contains(s, "%") /\ ParseIPv4(s) # <<>>

\* an IPv6 literal in any of its textual forms
IsIPv6Literal(s) == Contains(s, ":") /\ IsIPLiteral(s)

\* C12 as claimed: ValidateBroadcast succeeds for every IPv4 dotted-quad
\* string and fails for every IPv6 literal and every string that is no IP
\* address.
C12_ValidateBroadcastIPv4Only ==
  vResult.broadcast # "unset" =>
    /\ IsDottedQuad(vInput.broadcast) => vResult.broadcast = "ok"
    /\ IsIPv6Literal(vInput.broadcast) => vResult.broadcast = "error"
    /\ ~IsIPLiteral(vInput.broadcast) => vResult.broadcast = "error"

\* SendMagicPacket has returned to its caller
SendReturned(c) == pc[c] = "sendReturned"

\* C13: whenever SendMagicPacket returns after it acquired a socket, the
\* socket is closed: on success and on a socket-option, resolution or write
\* failure; a socket is open only inside SendMagicPacket.
C13_SocketClosedOnEveryPath ==
  \A c \in Callers :
    /\ SendReturned(c) => conn[c] \in {"none", "closed"}
    /\ (SendReturned(c) /\ sendErr[c] \in {"", "failed to set write buffer",
                                           "failed to resolve broadcast address",
                                           "failed to send magic packet"}) =>
         conn[c] = "closed"
    /\ conn[c] = "open" => pc[c] \in {"setWriteBuffer", "resolve", "write", "sendExit"}

\* C13 witness: SendMagicPacket acquired a socket, failed to resolve the
\* destination, and returned with the socket closed.
C13_Witness ==
  \E c \in Callers :
    /\ pc[c] = "sendReturned"
    /\ sendErr[c] = "failed to resolve broadcast address"
    /\ deferred[c]
    /\ conn[c] = "closed"

\* C14: a SendMagicPacket call writes to the socket at most once, a call that
\* returned success has written exactly once, and a failed write is the last
\* step before the return.
C14_AtMostOneWrite ==
  \A c \in Callers :
    /\ Len(written[c]) <= 1
    /\ (SendReturned(c) /\ sendErr[c] = "") => Len(written[c]) = 1
    /\ sendErr[c] = "failed to send magic packet" =>
         (Len(written[c]) = 1 /\ pc[c] \in {"sendExit", "sendReturned"})

\* C14 witness: a call whose only write failed has returned the failure.
C14_Witness ==
  \E c \in Callers :
    /\ pc[c] = "sendReturned"
    /\ sendErr[c] = "failed to send magic packet"
    /\ Len(written[c]) = 1

\* the i-th 6-byte group of a payload, i from 0, after the six-byte header
Group(payload, i) == SubSeq(payload, 7 + 6 * i, 12 + 6 * i)

\* C15 as claimed: every datagram SendMagicPacket writes is 102 bytes long,
\* six 0xFF bytes followed by 16 copies of the 6-byte MAC parsed from the mac
\* argument, and is addressed to port 9 of the broadcast argument.
C15_DatagramIsMagicPacket ==
  \A c \in Callers :
    \A k \in DOMAIN written[c] :
      LET d == written[c][k]
          macBytes == ParseMAC(normalizeMACAddress(sendMac[c]))
      IN /\ Len(d.payload) = PacketLen
         /\ \A j \in 1..6 : d.payload[j] = 255
         /\ Len(macBytes) = 6
         /\ \A i \in 0..15 : Group(d.payload, i) = macBytes
         /\ d.host = sendBroadcast[c]
         /\ d.port = <<"9">>

\* the error of each step of SendMagicPacket that the specification names:
\* InvalidMAC, TransportUnavailable, InvalidBroadcastAddress, TransmissionFailed
FourKinds ==
  [parseMAC |-> "invalid MAC address format",
   dial     |-> "failed to create UDP connection",
   resolve  |-> "failed to resolve broadcast address",
   write    |-> "failed to send magic packet"]

\* the same with the failure to set the socket option
FiveKinds ==
  [parseMAC       |-> "invalid MAC address format",
   dial           |-> "failed to create UDP connection",
   setWriteBuffer |-> "failed to set write buffer",
   resolve        |-> "failed to resolve broadcast address",
   write          |-> "failed to send magic packet"]

\* the error of caller c is "" or one of kinds; it is set once, by the step
\* that failed, to the kind of that step, and that step is the last one
\* before the return
ErrorOfFirstFailure(kinds, c) ==
  /\ sendErr[c] \in {""} \cup Range(kinds)
  /\ sendErr'[c] \in {""} \cup Range(kinds)
  /\ sendErr'[c] # sendErr[c] =>
       /\ sendErr[c] = ""
       /\ pc[c] \in DOMAIN kinds
       /\ sendErr'[c] = kinds[pc[c]]
       /\ pc'[c] = "sendExit"
  /\ sendErr[c] # "" => pc[c] \in {"sendExit", "sendReturned"}

\* C16 as claimed: an error SendMagicPacket returns is one of InvalidMAC,
\* TransportUnavailable, InvalidBroadcastAddress and TransmissionFailed, the
\* kind of the first step that failed in the order MAC parse, socket
\* acquisition, destination resolution, write; there is no other failure.
C16_FourErrorKinds ==
  [][\A c \in Callers : ErrorOfFirstFailure(FourKinds, c)]_vars

\* C16 amended: an error SendMagicPacket returns is one of five, the four
\* kinds and the failure to set the socket's write buffer, namely the one of
\* the first step that failed in the order MAC parse, socket acquisition,
\* socket option, destination resolution, write.
C16_FiveErrorKinds ==
  [][\A c \in Callers : ErrorOfFirstFailure(FiveKinds, c)]_vars

\* C16 witness: SendMagicPacket returned the failure to set the write buffer
\* of the socket it had acquired.
C16_Witness ==
  \E c \in Callers :
    /\ pc[c] = "sendReturned"
    /\ sendErr[c] = "failed to set write buffer"
    /\ conn[c] = "closed"
    /\ written[c] = <<>>

\* the errors that would report a cancellation or an expired deadline
CancelKinds == {"context canceled", "context deadline exceeded"}

\* C17 as claimed: when the caller's request is cancelled, or its deadline
\* expires, before the socket write completes, and SendMagicPacket gets as
\* far as the write, it returns a Cancelled/DeadlineExceeded error, which is
\* not the error of a failed transmission.
C17_CancellationHonoured ==
  \A c \in Callers :
    (pc[c] = "sendReturned" /\ cancelled[c] /\ written[c] # <<>>) =>
      sendErr[c] \in CancelKinds

\* the registry holds the records of the configuration, each under its id
RegistryAsConstructed ==
  /\ ~repo.isNil
  /\ repo.machines = ctor.machines
  /\ DOMAIN repo.machines = { cfgMachines[i].id : i \in DOMAIN cfgMachines }
  /\ \A i \in DOMAIN cfgMachines : repo.machines[cfgMachines[i].id] = cfgMachines[i]

\* C18: once constructed, the registry holds what construction produced, and
\* no step of a GetByID, GetAll, Exists or SendWakePacket call changes its
\* ids or the fields of a stored machine.
C18_RegistryImmutable ==
  [][RegistryAsConstructed /\ repo' = repo]_vars

\* C18 witness: on a registry of two machines a dispatch was sent and a
\* GetAll has returned.
C18_Witness ==
  /\ NumCallers >= 2
  /\ Cardinality(DOMAIN repo.machines) = 2
  /\ \E c, d \in Callers :
       /\ ret[c] = "Sent"
       /\ pc[d] = "readReturned"
       /\ readRet[d].op = "GetAll"

\* the callers that hold the read lock
Readers == { c \in Callers : pc[c] \in {"GetByID", "GetAll", "Exists"} }

\* the record the configuration lists under id, the zero Machine if none
Listed(id) ==
  IF \E i \in DOMAIN cfgMachines : cfgMachines[i].id = id
    THEN OwnRecord(id)
    ELSE NilMachine

\* what the read of caller c returned is what the read returns when it runs
\* alone: a function of the configuration and of the argument only
ReadResultAsAlone(c) ==
  /\ pc[c] = "lookedUp" => machine[c] = Listed(reqId[c])
  /\ (pc[c] = "readReturned" /\ readRet[c].op = "Exists") =>
       (readRet[c].exists <=> Listed(readRet[c].id) # NilMachine)
  /\ (pc[c] = "readReturned" /\ readRet[c].op = "GetAll") =>
       /\ Range(readRet[c].machines) = Range(cfgMachines)
       /\ Len(readRet[c].machines) = Len(cfgMachines)

\* C19: concurrent GetByID, GetAll and Exists calls all complete, the read
\* lock is held by exactly the calls in progress (so every lock taken is
\* released), and each call returns what it returns when it runs alone.
C19_ConcurrentReadsComplete ==
  /\ [](mu = Cardinality(Readers) /\ \A c \in Callers : ReadResultAsAlone(c))
  /\ \A c \in Callers : (c \in Readers) ~> (pc[c] \in {"lookedUp", "readReturned"})

\* C19 witness: every caller holds the read lock at the same time, in a
\* GetAll and in an Exists among them.
C19_Witness ==
  /\ NumCallers >= 2
  /\ mu = NumCallers
  /\ \E c, d \in Callers : pc[c] = "GetAll" /\ pc[d] = "Exists"

\* the records of input are valid and their ids pairwise distinct
ValidDistinct(input) == ~HasInvalid(input) /\ ~HasDuplicate(input)

\* every ordering of the records of input
Orderings(input) ==
  { p \in [DOMAIN input -> Range(input)] : Range(p) = Range(input) }

\* C20: for valid records with pairwise distinct ids the construction
\* succeeds on every ordering of them and yields the same machines, and
\* GetAll returns that same set whatever the order of the input was.
C20_OrderIndependent ==
  ValidDistinct(cfgMachines) =>
    /\ \A p \in Orderings(cfgMachines) :
         LET r == ConstructorReturn(Construct(p))
         IN /\ ~r.isNil
            /\ ~repo.isNil
            /\ MapValues(r.machines) = MapValues(repo.machines)
            /\ MapValues(r.machines) = Range(cfgMachines)
    /\ \A c \in Callers :
         (pc[c] = "readReturned" /\ readRet[c].op = "GetAll") =>
           Range(readRet[c].machines) = Range(cfgMachines)

\* C20 witness: the configuration lists machine b before machine a, and a
\* GetAll on the registry built from it returned a before b.
C20_Witness ==
  /\ Len(cfgMachines) = 2
  /\ cfgMachines[1].id = "b" /\ cfgMachines[2].id = "a"
  /\ \E c \in Callers :
       /\ pc[c] = "readReturned"
       /\ readRet[c].op = "GetAll"
       /\ readRet[c].machines = <<cfgMachines[2], cfgMachines[1]>>

\* the exchange of caller c is a well-formed POST /wol that Handler.Wake has
\* answered
WakeAnswered(c) ==
  /\ http[c].req.route = "POST /wol"
  /\ http[c].req.body = "ok"
  /\ http[c].stage = "responded"
  /\ pc[c] = "done"

\* C21: POST /wol with a well-formed body answers 202 exactly when
\* SendWakePacket succeeded, 404 exactly when it returned machine-not-found
\* and 500 for every other failure; an unknown machine is never answered
\* with 500.
C21_WakeStatusFollowsDispatch ==
  \A c \in Callers :
    WakeAnswered(c) =>
      /\ ret[c] \in Terminal
      /\ http[c].status = 202 <=> ret[c] = "Sent"
      /\ http[c].status = 404 <=> ret[c] = "NotFound"
      /\ http[c].status = 500 <=> ret[c] = "Failed"
      /\ http[c].req.id \notin RegistryIds => http[c].status = 404

\* C21 witness: one POST /wol was answered 404 for an unknown machine and
\* another 500 for a send that failed
C21_Witness ==
  \E c, d \in Callers :
    /\ WakeAnswered(c) /\ http[c].req.id = "nonexistent" /\ http[c].status = 404
    /\ WakeAnswered(d) /\ ret[d] = "Failed" /\ http[d].status = 500

\* the exchange of caller c is a request to a protected endpoint whose
\* X-API-Key header is missing or differs from the configured key
Unauthorized(c) ==
  /\ router.apiKey # ""
  /\ http[c].req.route \in ProtectedRoutes
  /\ http[c].req.key # router.apiKey

\* C22: with a non-empty API key configured, a request to POST /wol,
\* GET /machines or GET /machines/:id whose X-API-Key header is missing or
\* differs from the key is answered 401 and never reaches the endpoint
\* handler: no registry lookup, no transmitter invocation.
C22_UnauthorizedNeverHandled ==
  \A c \in Callers :
    Unauthorized(c) =>
      /\ http[c].stage = "responded"
      /\ http[c].status = 401
      /\ pc[c] = "idle"
      /\ reqId[c] = ""
      /\ machine[c] = NilMachine
      /\ readRet[c] = NoRead
      /\ invocations[c] = <<>>
      /\ written[c] = <<>>

\* C22 witness: a POST /wol without header and a GET /machines with a wrong
\* key were both answered 401
C22_Witness ==
  \E c, d \in Callers :
    /\ Unauthorized(c) /\ http[c].req.route = "POST /wol" /\ http[c].req.key = ""
    /\ http[c].status = 401
    /\ Unauthorized(d) /\ http[d].req.route = "GET /machines"
    /\ http[d].req.key = "wrong-key" /\ http[d].status = 401

\* HealthCheckFull has answered the GET /health of caller c
HealthAnswered(c) ==
  /\ http[c].req.route = "GET /health"
  /\ http[c].stage = "responded"
  /\ pc[c] = "readReturned"

\* C26: GET /health answers 200 only when at least one machine is
\* configured, and 503 with status "unhealthy" when none is.
C26_HealthUnhealthyWithoutMachines ==
  \A c \in Callers :
    HealthAnswered(c) =>
      /\ http[c].status = 200 => RegistryIds # {}
      /\ RegistryIds = {} => http[c].status = 503 /\ http[c].answer = "unhealthy"

\* a toggle enables its endpoints unless it is set to false
ToggleEnabled(toggle) == toggle # "false"

\* the observability routes the settings switch off
DisabledRoutes ==
  (IF ToggleEnabled(observability.health) THEN {} ELSE HealthRoutes)
    \cup (IF ToggleEnabled(observability.metrics) THEN {} ELSE {"GET /metrics"})

\* the router found no route for the request of caller c
NotRouted(c) == http[c].stage = "responded" /\ http[c].status = 404 /\ pc[c] = "idle"

\* C27: /health, /live and /ready are registered iff
\* observability.health_check.enabled is true or unset, /metrics iff
\* observability.metrics.enabled is true or unset, and /wol, /machines and
\* /machines/:id for every configuration; a request finds no route exactly
\* when its endpoint is switched off.
C27_RoutableIffEnabled ==
  /\ router.routes \cap HealthRoutes =
       IF ToggleEnabled(observability.health) THEN HealthRoutes ELSE {}
  /\ "GET /metrics" \in router.routes <=> ToggleEnabled(observability.metrics)
  /\ ProtectedRoutes \subseteq router.routes
  /\ \A c \in Callers :
       http[c].stage # "idle" => (NotRouted(c) <=> http[c].req.route \in DisabledRoutes)

\* C27 witness: with the health endpoints switched off and the metrics
\* toggle unset, GET /health found no route and GET /metrics was answered
C27_Witness ==
  /\ observability.health = "false"
  /\ observability.metrics = "nil"
  /\ \E c, d \in Callers :
       /\ http[c].req.route = "GET /health" /\ NotRouted(c)
       /\ http[d].req.route = "GET /metrics" /\ http[d].status = 200

\* the configuration passes every check of Config.Validate but, possibly,
\* the one of the API key
ValidApartFromAPIKey(cfg) == ConfigValidate([cfg EXCEPT !.apiKey = "some-key"]) = ""

\* C23: Config.Validate accepts a configuration whose authentication.api_key
\* is empty when every other field is valid.
C23_EmptyAPIKeyAccepted ==
  (/\ validateRet # "unset"
   /\ loadRet.cfg.apiKey = ""
   /\ ValidApartFromAPIKey(loadRet.cfg)) => validateRet = ""

\* LoadConfig has returned for a file it could read and parse
LoadedFromYAML == loadPc = "returned" /\ configFile.readable /\ configFile.yaml

\* C24: when GWAIHIR_PORT is set to a value that is not an integer,
\* LoadConfig returns an error (one that names the variable and the value)
\* and no configuration.
C24_InvalidPortOverrideRejected ==
  (/\ LoadedFromYAML
   /\ environ.GWAIHIR_PORT # <<>>
   /\ ~Atoi(environ.GWAIHIR_PORT).ok) => loadRet.isNil /\ loadRet.err # ""

\* C25: LoadConfig returns an error and no configuration whenever the
\* configuration it obtained after defaults and environment overrides fails
\* validation (here: for a reason other than the API key, such as an empty
\* file or an empty machines list).
C25_InvalidConfigurationRejected ==
  (/\ LoadedFromYAML
   /\ ~ValidApartFromAPIKey(loadCfg)) => loadRet.isNil /\ loadRet.err # ""

\* the calls of SendWakePacket that have returned
Completed == { c \in Callers : pc[c] = "done" }

\* C28: every completed SendWakePacket call has incremented exactly one of
\* the three counters exactly once: wol_sent iff it returned nil, wol_failed
\* iff the transmitter returned an error, machine_not_found iff the lookup
\* failed; so the three counters add up to the number of completed calls,
\* also when calls run concurrently.
C28_CountersMatchCompletedCalls ==
  /\ metrics.wol_sent = Returned("Sent")
  /\ metrics.wol_failed = Returned("Failed")
  /\ metrics.machine_not_found = Returned("NotFound")
  /\ metrics.wol_sent + metrics.wol_failed + metrics.machine_not_found
       = Cardinality(Completed)
  /\ \A c \in Completed : ret[c] \in Terminal

\* C28 witness: two calls have completed, one of them on a failed send, and
\* the other on a send that succeeded or on a failed lookup
C28_Witness ==
  /\ Cardinality(Completed) >= 2
  /\ metrics.wol_failed = 1
  /\ metrics.wol_sent + metrics.machine_not_found >= 1

\* C29: after a SIGINT or SIGTERM, startServer (and with it the process)
\* does not return before server.Shutdown has returned, that is, not before
\* every request in flight has completed or the shutdown timeout has elapsed.
C29_ExitOnlyAfterShutdownReturned ==
  (sigint /\ mainPc = "exited") => shutdown \in {"returned", "timed out"}

\* the errors of SendMagicPacket's MAC-parse and destination-resolution steps
ParseOrResolveErrors == {"invalid MAC address format", "failed to resolve broadcast address"}

\* the SendMagicPacket call of caller c is past its resolution step
PastResolve(c) ==
  /\ invocations[c] # <<>>
  /\ pc[c] \in {"write", "sendReturned", "done"}
  /\ sendErr[c] \in {"", "failed to send magic packet"}

\* C30: for every machine a successfully constructed registry holds,
\* SendMagicPacket called with the stored mac and broadcast never fails at
\* the MAC-parse step or at the destination-resolution step.
C30_AcceptedIsSendable ==
  \A c \in Callers :
    invocations[c] # <<>> =>
      /\ invocations[c][1] = SenderArgs(repo.machines[reqId[c]])
      /\ sendErr[c] \notin ParseOrResolveErrors
      /\ pc[c] \in {"sendReturned", "done"} /\ sendErr[c] = "" => written[c] # <<>>

\* C30 witness: a machine stored with mixed MAC separators and an
\* IPv4-mapped IPv6 broadcast got past the resolution step of its send
C30_Witness ==
  \E c \in Callers :
    /\ PastResolve(c)
    /\ MixedSeparators(machine[c].mac)
    /\ Contains(machine[c].broadcast, ":")

=============================================================================
